---- MODULE Spec2Model ----
(***************************************************************************)
(* The follow graph of python-backend-with-go: the in-memory user and      *)
(* follow repositories (repository/), the follow service (services/) and   *)
(* the single-file handlers of main.go.                                    *)
(*                                                                         *)
(*   Spec      one caller at a time calls the follow service               *)
(*   SpecRepo  one caller at a time calls the follow repository directly   *)
(*   SpecConc  goroutines call the follow service concurrently             *)
(*   SpecMain  goroutines run the handlers of main.go concurrently         *)
(***************************************************************************)
EXTENDS Integers, Sequences, FiniteSets, TLC

\* ------------------------------------------------------------------ bounds

\* How many users get registered.
MaxUsers == 2

\* How many goroutines serve calls at the same time.
NumProcs == 2

\* How many calls the goroutines start in one run.
MaxCalls == 3

\* How many posts get created.
MaxPosts == 2

\* How far the clock advances.
MaxTime == 1

Procs == 1..NumProcs

\* The users registered before the goroutines start, as the tests' setup
\* registers them, and the ids the goroutines pass.
ConcIds == {1, 2}

\* The ids a caller passes: 0 is what a missing JSON field or path value
\* decodes to, and MaxUsers + 1 is an id that is never registered.
Ids == 0..(MaxUsers + 1)

\* The ids passed to the repository when it is called directly.
RepoIds == {0, 1, 2}

\* ------------------------------------------------------------------ errors

Nil == "nil"
ErrRequired == "follower_id and following user ID are required"
ErrSelf == "cannot follow yourself"
ErrFollowerNotFound == "follower user not found"
ErrFollowingNotFound == "following user not found"
ErrAlready == "already following this user"
ErrRelNotFound == "follow relationship not found"
ErrUserNotFound == "user not found"
ErrUserIDRequired == "user_id is required"
ErrPostIDsRequired == "post_id and user_id are required"
ErrContentRequired == "content is required"
ErrContentTooLong == "content must be 300 characters or less"
ErrPostNotFound == "post not found"
ErrUnauthorizedUpdate == "unauthorized to update this post"
ErrUnauthorizedDelete == "unauthorized to delete this post"
ErrSignupRequired == "name, email, and password are required"
ErrEmailExists == "email already exists"
ErrBadConnection == "driver: bad connection"
ErrDuplicatedKey == "duplicated key not allowed"
ErrLoginRequired == "email and password are required"
ErrInvalidLogin == "invalid email or password"
ErrNoSecret == "failed to generate token: JWT_SECRET environment variable is not set"

\* ------------------------------------------------------------------- state

VARIABLES
    users,          \* InMemoryUserRepository.users: id -> User
    nextUserID,     \* InMemoryUserRepository.nextUserID
    follows,        \* InMemoryFollowRepository.follows: key -> Follow
    userFollowers,  \* InMemoryFollowRepository.userFollowers: id -> set of follower ids
    userFollowing,  \* InMemoryFollowRepository.userFollowing: id -> set of following ids
    call,           \* the last completed call of the single caller, with its result
    pre,            \* the three maps of the follow repository as they were before that call
    mu,             \* InMemoryFollowRepository.mu: the writer and the readers holding it
    pc,             \* where each goroutine stands in its call
    loc,            \* each goroutine's call: its arguments and, once returned, its result
    ncalls,         \* calls started so far
    fatal,          \* the Go runtime has ended the process on a concurrent map access
    posts,          \* InMemoryPostRepository.posts: id -> Post
    userPosts,      \* InMemoryPostRepository.userPosts: user id -> list of post ids
    nextPostID,     \* InMemoryPostRepository.nextPostID
    now,            \* the last reading of time.Now()
    pcall,          \* the last completed call of the post service's caller, with its result
    ppre,           \* the post repository as it was before that call
    dropped,        \* the pairs whose Unfollow succeeded, with no successful Follow since
    assigned,       \* the ids the post repository has handed out, oldest first
    ucall,          \* the last completed signup or login, with its result
    upre,           \* users and nextUserID as they were before that call
    issued,         \* the user ids the successful signups returned, oldest first
    rows,           \* GormFollowRepository: the rows of the follow table, as pairs
    gcall           \* the last call that involved the follow table, with its results

concVars == <<mu, pc, loc, ncalls, fatal>>

postVars == <<posts, userPosts, nextPostID, now, pcall, ppre, dropped, assigned>>

\* The relational follow repository.
gormVars == <<rows, gcall>>

\* The variables of signup, login and the relational repository, which the
\* operations on the in-memory follow graph and on the posts leave alone.
otherVars == <<ucall, upre, issued, gormVars>>

vars == <<users, nextUserID, follows, userFollowers, userFollowing, call, pre,
          mu, pc, loc, ncalls, fatal,
          posts, userPosts, nextPostID, now, pcall, ppre, dropped, assigned,
          ucall, upre, issued, rows, gcall>>

repoVars == <<follows, userFollowers, userFollowing>>

\* ----------------------------------------------------------------- Go maps

\* m[k] = v
MapPut(m, k, v) == [x \in (DOMAIN m) \cup {k} |-> IF x = k THEN v ELSE m[x]]

\* delete(m, k)
MapDelete(m, k) == [x \in (DOMAIN m) \ {k} |-> m[x]]

\* make(map[...])
EmptyMap == <<>>

\* m[k] of a map[int]map[int]bool, read as the set of keys it holds; a
\* missing k reads as the nil map, which holds none.
InnerSet(m, k) == IF k \in DOMAIN m THEN m[k] ELSE {}

\* ------------------------------------------------------- fmt.Sprintf("%d")

DigitChar(d) ==
    CASE d = 0 -> "0" [] d = 1 -> "1" [] d = 2 -> "2" [] d = 3 -> "3"
      [] d = 4 -> "4" [] d = 5 -> "5" [] d = 6 -> "6" [] d = 7 -> "7"
      [] d = 8 -> "8" [] d = 9 -> "9"

RECURSIVE Digits(_)
Digits(n) == IF n < 10 THEN <<DigitChar(n)>>
             ELSE Append(Digits(n \div 10), DigitChar(n % 10))

\* fmt.Sprintf("%d:%d", followerID, followingID)
FollowKey(followerID, followingID) ==
    Digits(followerID) \o <<":">> \o Digits(followingID)

\* models.Follow, without its timestamp
FollowRec(followerID, followingID) ==
    [FollowerID |-> followerID, FollowingID |-> followingID]

\* ------------------------------------------- InMemoryFollowRepository.Create

\* Mutant: Create stores the edge in both directions.
CreateFollowsMirrored(fs, f) ==
    MapPut(MapPut(fs, FollowKey(f.FollowerID, f.FollowingID), f),
           FollowKey(f.FollowingID, f.FollowerID), FollowRec(f.FollowingID, f.FollowerID))

CreateFollows(fs, f) == MapPut(fs, FollowKey(f.FollowerID, f.FollowingID), f)

\* Mutant: the follower is indexed under its own id.
CreateFollowersSwapped(uf, f) ==
    MapPut(uf, f.FollowerID, InnerSet(uf, f.FollowerID) \cup {f.FollowingID})

CreateFollowers(uf, f) ==
    MapPut(uf, f.FollowingID, InnerSet(uf, f.FollowingID) \cup {f.FollowerID})

CreateFollowing(ug, f) ==
    MapPut(ug, f.FollowerID, InnerSet(ug, f.FollowerID) \cup {f.FollowingID})

\* ------------------------------------------- InMemoryFollowRepository.Delete

\* Mutant: Delete without its existence check.
DeleteFoundAlways(fs, followerID, followingID) == TRUE

DeleteFound(fs, followerID, followingID) ==
    FollowKey(followerID, followingID) \in DOMAIN fs

DeleteFollows(fs, followerID, followingID) ==
    MapDelete(fs, FollowKey(followerID, followingID))

\* Mutant: Delete leaves the followers index alone.
DeleteFollowersSkipped(uf, followerID, followingID) == uf

DeleteFollowers(uf, followerID, followingID) ==
    IF followingID \in DOMAIN uf
    THEN [uf EXCEPT ![followingID] = @ \ {followerID}]
    ELSE uf

\* Mutant: Delete takes the follower, not the followed user, out of the
\* following index.
DeleteFollowingSwapped(ug, followerID, followingID) ==
    IF followerID \in DOMAIN ug
    THEN [ug EXCEPT ![followerID] = @ \ {followerID}]
    ELSE ug

\* Mutant: Delete leaves the following index alone.
DeleteFollowingSkipped(ug, followerID, followingID) == ug

DeleteFollowing(ug, followerID, followingID) ==
    IF followerID \in DOMAIN ug
    THEN [ug EXCEPT ![followerID] = @ \ {followingID}]
    ELSE ug

\* ------------------------------------------ InMemoryFollowRepository reads

RepoExists(fs, followerID, followingID) ==
    FollowKey(followerID, followingID) \in DOMAIN fs

\* The ids GetFollowers appends to its result, in the order the map yields
\* them: the set here, the order chosen where the result is built.
RepoGetFollowers(uf, userID) == InnerSet(uf, userID)

RepoGetFollowing(ug, userID) == InnerSet(ug, userID)

\* Every sequence that lists each element of S once: the orders in which a
\* range over a Go map may yield its keys.
Orders(S) ==
    {s \in [1..Cardinality(S) -> S] : \A i, j \in 1..Cardinality(S) : s[i] = s[j] => i = j}

\* --------------------------------------------------- InMemoryUserRepository

UserGetByIDFails(us, id) == id \notin DOMAIN us

\* ------------------------------------------------------------ FollowService

\* Mutant: the users are looked up before the self-follow check.
FollowPreErrExistsFirst(us, followerID, followingID) ==
    IF followerID = 0 \/ followingID = 0 THEN ErrRequired
    ELSE IF UserGetByIDFails(us, followerID) THEN ErrFollowerNotFound
    ELSE IF UserGetByIDFails(us, followingID) THEN ErrFollowingNotFound
    ELSE IF followerID = followingID THEN ErrSelf
    ELSE Nil

\* Mutant: the followed user is looked up before the follower.
FollowPreErrFollowingFirst(us, followerID, followingID) ==
    IF followerID = 0 \/ followingID = 0 THEN ErrRequired
    ELSE IF followerID = followingID THEN ErrSelf
    ELSE IF UserGetByIDFails(us, followingID) THEN ErrFollowingNotFound
    ELSE IF UserGetByIDFails(us, followerID) THEN ErrFollowerNotFound
    ELSE Nil

\* Mutant: Follow without its self-follow check.
FollowPreErrSelfAllowed(us, followerID, followingID) ==
    IF followerID = 0 \/ followingID = 0 THEN ErrRequired
    ELSE IF UserGetByIDFails(us, followerID) THEN ErrFollowerNotFound
    ELSE IF UserGetByIDFails(us, followingID) THEN ErrFollowingNotFound
    ELSE Nil

\* The checks of Follow that precede the duplicate check.
FollowPreErr(us, followerID, followingID) ==
    IF followerID = 0 \/ followingID = 0 THEN ErrRequired
    ELSE IF followerID = followingID THEN ErrSelf
    ELSE IF UserGetByIDFails(us, followerID) THEN ErrFollowerNotFound
    ELSE IF UserGetByIDFails(us, followingID) THEN ErrFollowingNotFound
    ELSE Nil

\* Mutant: Follow without its duplicate check.
FollowDupErrNone(fs, followerID, followingID) == Nil

\* The duplicate check of Follow.
FollowDupErr(fs, followerID, followingID) ==
    IF RepoExists(fs, followerID, followingID) THEN ErrAlready ELSE Nil

\* The validation of Unfollow.
UnfollowPreErr(followerID, followingID) ==
    IF followerID = 0 \/ followingID = 0 THEN ErrRequired ELSE Nil

\* Mutant: the conversion loop leaves its last id out.
ResolvedButLast(us, ids) ==
    SelectSeq(SubSeq(ids, 1, Len(ids) - 1), LAMBDA id : ~UserGetByIDFails(us, id))

\* The users GetFollowers and GetFollowing keep of the ids the repository
\* returned: those the user repository resolves.
Resolved(us, ids) == SelectSeq(ids, LAMBDA id : ~UserGetByIDFails(us, id))

\* What the read operations of the repository return, for every id.
Obs(fs, uf, ug) ==
    [ exists    |-> {p \in Ids \X Ids : RepoExists(fs, p[1], p[2])},
      followers |-> [u \in Ids |-> RepoGetFollowers(uf, u)],
      following |-> [u \in Ids |-> RepoGetFollowing(ug, u)] ]

\* The three maps of the follow repository.
Snapshot ==
    [follows |-> follows, userFollowers |-> userFollowers, userFollowing |-> userFollowing]

\* The record of a completed call. chained says that the call before it was
\* a successful Follow of the same ordered pair.
Call(op, a, b, err, out, isFollowing, chained) ==
    [op |-> op, a |-> a, b |-> b, err |-> err, out |-> out,
     isFollowing |-> isFollowing, chained |-> chained]

NoCall == Call("none", 0, 0, Nil, <<>>, FALSE, FALSE)

\* The call just before this one was a successful Follow(a, b).
Chained(a, b) == call.op = "Follow" /\ call.err = Nil /\ call.a = a /\ call.b = b

\* A goroutine's call: its arguments, its result, and dup: its Create stored
\* the edge over one that was already stored.
Loc(op, a, b) ==
    [op |-> op, a |-> a, b |-> b, err |-> Nil, out |-> <<>>, isFollowing |-> FALSE,
     dup |-> FALSE]

\* sync.RWMutex, unlocked
Unlocked == [writer |-> 0, readers |-> {}]

ConcInit ==
    /\ mu = Unlocked
    /\ pc = [p \in Procs |-> "idle"]
    /\ loc = [p \in Procs |-> Loc("none", 0, 0)]
    /\ ncalls = 0
    /\ fatal = FALSE

\* The record of a completed signup or login: the request, the error, and
\* the user id and the token of the response.
UserCall(op, name, email, password, err, userID, token) ==
    [op |-> op, name |-> name, email |-> email, password |-> password,
     err |-> err, userID |-> userID, token |-> token]

NoUserCall == UserCall("none", "", "", "", Nil, 0, "")

\* The user store: its map and its counter.
UserSnapshot == [users |-> users, nextUserID |-> nextUserID]

\* No signup or login made yet, and an empty follow table.
OtherInit ==
    /\ ucall = NoUserCall
    /\ upre = [users |-> EmptyMap, nextUserID |-> 1]
    /\ issued = <<>>
    /\ rows = {}
    /\ gcall = [op |-> "none"]

\* The record of a completed call of the post service: its arguments, its
\* error, and the posts it returned (out) with their Count.
PostCall(op, postID, userID, content, err, out) ==
    [op |-> op, postID |-> postID, userID |-> userID, content |-> content,
     err |-> err, out |-> out, count |-> Len(out)]

NoPostCall == PostCall("none", 0, 0, "", Nil, <<>>)

\* The post repository: its two maps and its counter.
PostSnapshot == [posts |-> posts, userPosts |-> userPosts, nextPostID |-> nextPostID]

\* NewInMemoryPostRepository, with the clock not yet read and no call made.
PostInit ==
    /\ posts = EmptyMap
    /\ userPosts = EmptyMap
    /\ nextPostID = 1
    /\ now = 0
    /\ pcall = NoPostCall
    /\ ppre = [posts |-> EmptyMap, userPosts |-> EmptyMap, nextPostID |-> 1]
    /\ dropped = {}
    /\ assigned = <<>>

Init ==
    /\ users = EmptyMap
    /\ nextUserID = 1
    /\ follows = EmptyMap
    /\ userFollowers = EmptyMap
    /\ userFollowing = EmptyMap
    /\ call = NoCall
    /\ pre = [follows |-> EmptyMap, userFollowers |-> EmptyMap, userFollowing |-> EmptyMap]
    /\ ConcInit
    /\ PostInit
    /\ OtherInit

\* InMemoryUserRepository.Create
UserCreate ==
    /\ nextUserID <= MaxUsers
    /\ users' = MapPut(users, nextUserID, [ID |-> nextUserID])
    /\ nextUserID' = nextUserID + 1
    /\ call' = Call("UserCreate", nextUserID, 0, Nil, <<>>, FALSE, FALSE)
    /\ pre' = Snapshot
    /\ UNCHANGED <<repoVars, concVars, postVars, otherVars>>

\* FollowService.Follow
Follow(followerID, followingID) ==
    LET e1 == FollowPreErr(users, followerID, followingID)
        e2 == FollowDupErr(follows, followerID, followingID)
        err == IF e1 # Nil THEN e1 ELSE e2
        f == FollowRec(followerID, followingID)
    IN  /\ call' = Call("Follow", followerID, followingID, err, <<>>, FALSE,
                        Chained(followerID, followingID))
        /\ pre' = Snapshot
        /\ IF err = Nil
           THEN /\ follows' = CreateFollows(follows, f)
                /\ userFollowers' = CreateFollowers(userFollowers, f)
                /\ userFollowing' = CreateFollowing(userFollowing, f)
           ELSE UNCHANGED repoVars
        /\ UNCHANGED <<users, nextUserID, concVars, postVars, otherVars>>

\* FollowService.Unfollow
Unfollow(followerID, followingID) ==
    LET e1 == UnfollowPreErr(followerID, followingID)
        err == IF e1 # Nil THEN e1
               ELSE IF DeleteFound(follows, followerID, followingID) THEN Nil
               ELSE ErrRelNotFound
    IN  /\ call' = Call("Unfollow", followerID, followingID, err, <<>>, FALSE,
                        Chained(followerID, followingID))
        /\ pre' = Snapshot
        /\ IF err = Nil
           THEN /\ follows' = DeleteFollows(follows, followerID, followingID)
                /\ userFollowers' = DeleteFollowers(userFollowers, followerID, followingID)
                /\ userFollowing' = DeleteFollowing(userFollowing, followerID, followingID)
           ELSE UNCHANGED repoVars
        /\ UNCHANGED <<users, nextUserID, concVars, postVars, otherVars>>

\* FollowService.GetFollowers
GetFollowers(userID) ==
    /\ pre' = Snapshot
    /\ IF UserGetByIDFails(users, userID)
       THEN call' = Call("GetFollowers", userID, 0, ErrUserNotFound, <<>>, FALSE, FALSE)
       ELSE \E ids \in Orders(RepoGetFollowers(userFollowers, userID)) :
                call' = Call("GetFollowers", userID, 0, Nil, Resolved(users, ids), FALSE, FALSE)
    /\ UNCHANGED <<users, nextUserID, repoVars, concVars, postVars, otherVars>>

\* FollowService.GetFollowing
GetFollowing(userID) ==
    /\ pre' = Snapshot
    /\ IF UserGetByIDFails(users, userID)
       THEN call' = Call("GetFollowing", userID, 0, ErrUserNotFound, <<>>, FALSE, FALSE)
       ELSE \E ids \in Orders(RepoGetFollowing(userFollowing, userID)) :
                call' = Call("GetFollowing", userID, 0, Nil, Resolved(users, ids), FALSE, FALSE)
    /\ UNCHANGED <<users, nextUserID, repoVars, concVars, postVars, otherVars>>

\* FollowService.GetFollowStatus
GetFollowStatus(followerID, followingID) ==
    /\ pre' = Snapshot
    /\ call' = Call("GetFollowStatus", followerID, followingID, Nil, <<>>,
                    RepoExists(follows, followerID, followingID), FALSE)
    /\ UNCHANGED <<users, nextUserID, repoVars, concVars, postVars, otherVars>>

Next ==
    \/ UserCreate
    \/ \E a, b \in Ids : Follow(a, b)
    \/ \E a, b \in Ids : Unfollow(a, b)
    \/ \E u \in Ids : GetFollowers(u)
    \/ \E u \in Ids : GetFollowing(u)
    \/ \E a, b \in Ids : GetFollowStatus(a, b)

Spec == Init /\ [][Next]_vars

\* ------------------------------------------------ SpecRepo: the repository

\* InMemoryFollowRepository.Create, called directly
RepoCreate(followerID, followingID) ==
    LET f == FollowRec(followerID, followingID)
    IN  /\ follows' = CreateFollows(follows, f)
        /\ userFollowers' = CreateFollowers(userFollowers, f)
        /\ userFollowing' = CreateFollowing(userFollowing, f)
        /\ call' = Call("RepoCreate", followerID, followingID, Nil, <<>>, FALSE, FALSE)
        /\ UNCHANGED <<users, nextUserID, pre, concVars, postVars, otherVars>>

\* InMemoryFollowRepository.Delete, called directly
RepoDelete(followerID, followingID) ==
    /\ IF DeleteFound(follows, followerID, followingID)
       THEN /\ follows' = DeleteFollows(follows, followerID, followingID)
            /\ userFollowers' = DeleteFollowers(userFollowers, followerID, followingID)
            /\ userFollowing' = DeleteFollowing(userFollowing, followerID, followingID)
            /\ call' = Call("RepoDelete", followerID, followingID, Nil, <<>>, FALSE, FALSE)
       ELSE /\ UNCHANGED repoVars
            /\ call' = Call("RepoDelete", followerID, followingID, ErrRelNotFound,
                            <<>>, FALSE, FALSE)
    /\ UNCHANGED <<users, nextUserID, pre, concVars, postVars, otherVars>>

RepoNext ==
    \/ \E a, b \in RepoIds : RepoCreate(a, b)
    \/ \E a, b \in RepoIds : RepoDelete(a, b)

SpecRepo == Init /\ [][RepoNext]_vars

\* --------------------------------------- SpecConc: the service, concurrently

\* The repositories after the tests' setup: the users registered, no edge.
FixtureInit ==
    /\ users = [id \in ConcIds |-> [ID |-> id]]
    /\ nextUserID = Cardinality(ConcIds) + 1
    /\ follows = EmptyMap
    /\ userFollowers = EmptyMap
    /\ userFollowing = EmptyMap
    /\ call = NoCall
    /\ pre = [follows |-> EmptyMap, userFollowers |-> EmptyMap, userFollowing |-> EmptyMap]
    /\ ConcInit
    /\ PostInit
    /\ OtherInit

seqVars == <<users, nextUserID, call, pre>>

\* Mutant: Lock does not wait for the readers.
CanLockDespiteReaders(m) == m.writer = 0

\* mu.Lock() returns once no goroutine holds the mutex.
CanLock(m) == m.writer = 0 /\ m.readers = {}

\* mu.RLock() returns once no writer holds the mutex.
CanRLock(m) == m.writer = 0

\* The goroutine starts a call: it is between calls and the run has calls left.
Starts(p) ==
    /\ pc[p] = "idle"
    /\ ncalls < MaxCalls
    /\ ncalls' = ncalls + 1

\* The call of p goes on at `to` with locals l.
Goes(p, to, l) ==
    /\ pc' = [pc EXCEPT ![p] = to]
    /\ loc' = [loc EXCEPT ![p] = l]

\* The call of p returns with locals l.
Returns(p, l) == Goes(p, "idle", l)

\* FollowService.Follow up to its duplicate check: the validation and the two
\* user lookups (no user is registered while the goroutines run).
ConcFollowStart(p, a, b) ==
    /\ Starts(p)
    /\ LET e == FollowPreErr(users, a, b)
       IN  IF e # Nil
           THEN Returns(p, [Loc("Follow", a, b) EXCEPT !.err = e])
           ELSE Goes(p, "exists_rlock", Loc("Follow", a, b))
    /\ UNCHANGED <<seqVars, postVars, otherVars, repoVars, mu, fatal>>

\* FollowService.Unfollow up to its call of Delete.
ConcUnfollowStart(p, a, b) ==
    /\ Starts(p)
    /\ LET e == UnfollowPreErr(a, b)
       IN  IF e # Nil
           THEN Returns(p, [Loc("Unfollow", a, b) EXCEPT !.err = e])
           ELSE Goes(p, "delete_lock", Loc("Unfollow", a, b))
    /\ UNCHANGED <<seqVars, postVars, otherVars, repoVars, mu, fatal>>

\* FollowService.GetFollowers up to its call of the repository.
ConcGetFollowersStart(p, u) ==
    /\ Starts(p)
    /\ IF UserGetByIDFails(users, u)
       THEN Returns(p, [Loc("GetFollowers", u, 0) EXCEPT !.err = ErrUserNotFound])
       ELSE Goes(p, "followers_rlock", Loc("GetFollowers", u, 0))
    /\ UNCHANGED <<seqVars, postVars, otherVars, repoVars, mu, fatal>>

\* FollowService.GetFollowing up to its call of the repository.
ConcGetFollowingStart(p, u) ==
    /\ Starts(p)
    /\ IF UserGetByIDFails(users, u)
       THEN Returns(p, [Loc("GetFollowing", u, 0) EXCEPT !.err = ErrUserNotFound])
       ELSE Goes(p, "following_rlock", Loc("GetFollowing", u, 0))
    /\ UNCHANGED <<seqVars, postVars, otherVars, repoVars, mu, fatal>>

\* FollowService.GetFollowStatus up to its call of Exists.
ConcGetFollowStatusStart(p, a, b) ==
    /\ Starts(p)
    /\ Goes(p, "status_rlock", Loc("GetFollowStatus", a, b))
    /\ UNCHANGED <<seqVars, postVars, otherVars, repoVars, mu, fatal>>

\* Where a goroutine stands once its RLock or Lock has returned.
Locked(at) ==
    CASE at = "exists_rlock" -> "exists_read"
      [] at = "status_rlock" -> "status_read"
      [] at = "followers_rlock" -> "followers_read"
      [] at = "following_rlock" -> "following_read"
      [] at = "create_lock" -> "create_follows"
      [] at = "delete_lock" -> "delete_follows"

\* r.mu.RLock() of Exists, GetFollowers and GetFollowing
RLock(p) ==
    /\ pc[p] \in {"exists_rlock", "status_rlock", "followers_rlock", "following_rlock"}
    /\ CanRLock(mu)
    /\ mu' = [mu EXCEPT !.readers = @ \cup {p}]
    /\ pc' = [pc EXCEPT ![p] = Locked(pc[p])]
    /\ UNCHANGED <<seqVars, postVars, otherVars, repoVars, loc, ncalls, fatal>>

\* r.mu.Lock() of Create and Delete
Lock(p) ==
    /\ pc[p] \in {"create_lock", "delete_lock"}
    /\ CanLock(mu)
    /\ mu' = [mu EXCEPT !.writer = p]
    /\ pc' = [pc EXCEPT ![p] = Locked(pc[p])]
    /\ UNCHANGED <<seqVars, postVars, otherVars, repoVars, loc, ncalls, fatal>>

\* Exists under the read lock, as Follow calls it: the duplicate check.
ConcExistsRead(p) ==
    /\ pc[p] = "exists_read"
    /\ mu' = [mu EXCEPT !.readers = @ \ {p}]
    /\ LET e == FollowDupErr(follows, loc[p].a, loc[p].b)
       IN  IF e # Nil
           THEN Returns(p, [loc[p] EXCEPT !.err = e])
           ELSE Goes(p, "create_lock", loc[p])
    /\ UNCHANGED <<seqVars, postVars, otherVars, repoVars, ncalls, fatal>>

\* Create, holding the lock: r.follows[followKey] = follow
ConcCreateFollows(p) ==
    /\ pc[p] = "create_follows"
    /\ follows' = CreateFollows(follows, FollowRec(loc[p].a, loc[p].b))
    /\ Goes(p, "create_followers",
            [loc[p] EXCEPT !.dup = RepoExists(follows, loc[p].a, loc[p].b)])
    /\ UNCHANGED <<seqVars, postVars, otherVars, userFollowers, userFollowing, mu, ncalls, fatal>>

\* Create, holding the lock: the followers index
ConcCreateFollowers(p) ==
    /\ pc[p] = "create_followers"
    /\ userFollowers' = CreateFollowers(userFollowers, FollowRec(loc[p].a, loc[p].b))
    /\ Goes(p, "create_following", loc[p])
    /\ UNCHANGED <<seqVars, postVars, otherVars, follows, userFollowing, mu, ncalls, fatal>>

\* Create, holding the lock: the following index, the deferred Unlock, and
\* Follow's return.
ConcCreateFollowing(p) ==
    /\ pc[p] = "create_following"
    /\ userFollowing' = CreateFollowing(userFollowing, FollowRec(loc[p].a, loc[p].b))
    /\ mu' = [mu EXCEPT !.writer = 0]
    /\ Returns(p, loc[p])
    /\ UNCHANGED <<seqVars, postVars, otherVars, follows, userFollowers, ncalls, fatal>>

\* Delete, holding the lock: the existence check, then delete(r.follows, key)
\* or the deferred Unlock and the error.
ConcDeleteFollows(p) ==
    /\ pc[p] = "delete_follows"
    /\ IF DeleteFound(follows, loc[p].a, loc[p].b)
       THEN /\ follows' = DeleteFollows(follows, loc[p].a, loc[p].b)
            /\ Goes(p, "delete_followers", loc[p])
            /\ UNCHANGED mu
       ELSE /\ mu' = [mu EXCEPT !.writer = 0]
            /\ Returns(p, [loc[p] EXCEPT !.err = ErrRelNotFound])
            /\ UNCHANGED follows
    /\ UNCHANGED <<seqVars, postVars, otherVars, userFollowers, userFollowing, ncalls, fatal>>

\* Delete, holding the lock: the followers index
ConcDeleteFollowers(p) ==
    /\ pc[p] = "delete_followers"
    /\ userFollowers' = DeleteFollowers(userFollowers, loc[p].a, loc[p].b)
    /\ Goes(p, "delete_following", loc[p])
    /\ UNCHANGED <<seqVars, postVars, otherVars, follows, userFollowing, mu, ncalls, fatal>>

\* Delete, holding the lock: the following index, the deferred Unlock, and
\* Unfollow's return.
ConcDeleteFollowing(p) ==
    /\ pc[p] = "delete_following"
    /\ userFollowing' = DeleteFollowing(userFollowing, loc[p].a, loc[p].b)
    /\ mu' = [mu EXCEPT !.writer = 0]
    /\ Returns(p, loc[p])
    /\ UNCHANGED <<seqVars, postVars, otherVars, follows, userFollowers, ncalls, fatal>>

\* GetFollowers under the read lock, then the service's lookup of each id.
ConcFollowersRead(p) ==
    /\ pc[p] = "followers_read"
    /\ mu' = [mu EXCEPT !.readers = @ \ {p}]
    /\ \E ids \in Orders(RepoGetFollowers(userFollowers, loc[p].a)) :
           Returns(p, [loc[p] EXCEPT !.out = Resolved(users, ids)])
    /\ UNCHANGED <<seqVars, postVars, otherVars, repoVars, ncalls, fatal>>

\* GetFollowing under the read lock, then the service's lookup of each id.
ConcFollowingRead(p) ==
    /\ pc[p] = "following_read"
    /\ mu' = [mu EXCEPT !.readers = @ \ {p}]
    /\ \E ids \in Orders(RepoGetFollowing(userFollowing, loc[p].a)) :
           Returns(p, [loc[p] EXCEPT !.out = Resolved(users, ids)])
    /\ UNCHANGED <<seqVars, postVars, otherVars, repoVars, ncalls, fatal>>

\* Exists under the read lock, as GetFollowStatus calls it.
ConcStatusRead(p) ==
    /\ pc[p] = "status_read"
    /\ mu' = [mu EXCEPT !.readers = @ \ {p}]
    /\ Returns(p, [loc[p] EXCEPT !.isFollowing = RepoExists(follows, loc[p].a, loc[p].b)])
    /\ UNCHANGED <<seqVars, postVars, otherVars, repoVars, ncalls, fatal>>

ConcNext ==
    \E p \in Procs :
        \/ \E a, b \in ConcIds : ConcFollowStart(p, a, b)
        \/ \E a, b \in ConcIds : ConcUnfollowStart(p, a, b)
        \/ \E u \in ConcIds : ConcGetFollowersStart(p, u)
        \/ \E u \in ConcIds : ConcGetFollowingStart(p, u)
        \/ \E a, b \in ConcIds : ConcGetFollowStatusStart(p, a, b)
        \/ RLock(p)
        \/ Lock(p)
        \/ ConcExistsRead(p)
        \/ ConcCreateFollows(p)
        \/ ConcCreateFollowers(p)
        \/ ConcCreateFollowing(p)
        \/ ConcDeleteFollows(p)
        \/ ConcDeleteFollowers(p)
        \/ ConcDeleteFollowing(p)
        \/ ConcFollowersRead(p)
        \/ ConcFollowingRead(p)
        \/ ConcStatusRead(p)

SpecConc == FixtureInit /\ [][ConcNext]_vars

\* ------------------------------------- SpecMain: main.go's handlers, no lock

\* handleFollow up to its duplicate check: the validation and the two user
\* lookups (no user signs up while the goroutines run).
HandleFollowStart(p, a, b) ==
    /\ ~fatal
    /\ Starts(p)
    /\ LET e == IF a = 0 \/ b = 0 THEN ErrRequired
                ELSE IF a = b THEN ErrSelf
                ELSE IF a \notin DOMAIN users THEN ErrFollowerNotFound
                ELSE IF b \notin DOMAIN users THEN ErrFollowingNotFound
                ELSE Nil
       IN  IF e # Nil
           THEN Returns(p, [Loc("handleFollow", a, b) EXCEPT !.err = e])
           ELSE Goes(p, "hf_check", Loc("handleFollow", a, b))
    /\ UNCHANGED <<seqVars, postVars, otherVars, repoVars, mu, fatal>>

\* handleFollow: if _, exists := follows[followKey]; exists
HandleFollowCheck(p) ==
    /\ ~fatal
    /\ pc[p] = "hf_check"
    /\ IF FollowKey(loc[p].a, loc[p].b) \in DOMAIN follows
       THEN Returns(p, [loc[p] EXCEPT !.err = ErrAlready])
       ELSE Goes(p, "hf_follows", loc[p])
    /\ UNCHANGED <<seqVars, postVars, otherVars, repoVars, mu, ncalls, fatal>>

\* handleFollow: follows[followKey] = follow
HandleFollowFollows(p) ==
    /\ ~fatal
    /\ pc[p] = "hf_follows"
    /\ follows' = MapPut(follows, FollowKey(loc[p].a, loc[p].b), FollowRec(loc[p].a, loc[p].b))
    /\ Goes(p, "hf_followers",
            [loc[p] EXCEPT !.dup = FollowKey(loc[p].a, loc[p].b) \in DOMAIN follows])
    /\ UNCHANGED <<seqVars, postVars, otherVars, userFollowers, userFollowing, mu, ncalls, fatal>>

\* handleFollow: userFollowers[followingID][followerID] = true
HandleFollowFollowers(p) ==
    /\ ~fatal
    /\ pc[p] = "hf_followers"
    /\ userFollowers' =
           MapPut(userFollowers, loc[p].b, InnerSet(userFollowers, loc[p].b) \cup {loc[p].a})
    /\ Goes(p, "hf_following", loc[p])
    /\ UNCHANGED <<seqVars, postVars, otherVars, follows, userFollowing, mu, ncalls, fatal>>

\* handleFollow: userFollowing[followerID][followingID] = true, and the response
HandleFollowFollowing(p) ==
    /\ ~fatal
    /\ pc[p] = "hf_following"
    /\ userFollowing' =
           MapPut(userFollowing, loc[p].a, InnerSet(userFollowing, loc[p].a) \cup {loc[p].b})
    /\ Returns(p, loc[p])
    /\ UNCHANGED <<seqVars, postVars, otherVars, follows, userFollowers, mu, ncalls, fatal>>

\* handleUnfollow up to its existence check
HandleUnfollowStart(p, a, b) ==
    /\ ~fatal
    /\ Starts(p)
    /\ IF a = 0 \/ b = 0
       THEN Returns(p, [Loc("handleUnfollow", a, b) EXCEPT !.err = ErrRequired])
       ELSE Goes(p, "hu_check", Loc("handleUnfollow", a, b))
    /\ UNCHANGED <<seqVars, postVars, otherVars, repoVars, mu, fatal>>

\* handleUnfollow: if _, exists := follows[followKey]; !exists
HandleUnfollowCheck(p) ==
    /\ ~fatal
    /\ pc[p] = "hu_check"
    /\ IF FollowKey(loc[p].a, loc[p].b) \in DOMAIN follows
       THEN Goes(p, "hu_follows", loc[p])
       ELSE Returns(p, [loc[p] EXCEPT !.err = ErrRelNotFound])
    /\ UNCHANGED <<seqVars, postVars, otherVars, repoVars, mu, ncalls, fatal>>

\* handleUnfollow: delete(follows, followKey)
HandleUnfollowFollows(p) ==
    /\ ~fatal
    /\ pc[p] = "hu_follows"
    /\ follows' = MapDelete(follows, FollowKey(loc[p].a, loc[p].b))
    /\ Goes(p, "hu_followers", loc[p])
    /\ UNCHANGED <<seqVars, postVars, otherVars, userFollowers, userFollowing, mu, ncalls, fatal>>

\* handleUnfollow: delete(userFollowers[followingID], followerID)
HandleUnfollowFollowers(p) ==
    /\ ~fatal
    /\ pc[p] = "hu_followers"
    /\ userFollowers' =
           IF loc[p].b \in DOMAIN userFollowers
           THEN [userFollowers EXCEPT ![loc[p].b] = @ \ {loc[p].a}]
           ELSE userFollowers
    /\ Goes(p, "hu_following", loc[p])
    /\ UNCHANGED <<seqVars, postVars, otherVars, follows, userFollowing, mu, ncalls, fatal>>

\* handleUnfollow: delete(userFollowing[followerID], followingID), and the response
HandleUnfollowFollowing(p) ==
    /\ ~fatal
    /\ pc[p] = "hu_following"
    /\ userFollowing' =
           IF loc[p].a \in DOMAIN userFollowing
           THEN [userFollowing EXCEPT ![loc[p].a] = @ \ {loc[p].b}]
           ELSE userFollowing
    /\ Returns(p, loc[p])
    /\ UNCHANGED <<seqVars, postVars, otherVars, follows, userFollowers, mu, ncalls, fatal>>

\* handleGetFollowers up to its read of the index
HandleGetFollowersStart(p, u) ==
    /\ ~fatal
    /\ Starts(p)
    /\ IF u \notin DOMAIN users
       THEN Returns(p, [Loc("handleGetFollowers", u, 0) EXCEPT !.err = ErrUserNotFound])
       ELSE Goes(p, "hg_followers", Loc("handleGetFollowers", u, 0))
    /\ UNCHANGED <<seqVars, postVars, otherVars, repoVars, mu, fatal>>

\* handleGetFollowers: the range over userFollowers[userID], and the response
HandleGetFollowersRead(p) ==
    /\ ~fatal
    /\ pc[p] = "hg_followers"
    /\ \E ids \in Orders(InnerSet(userFollowers, loc[p].a)) :
           Returns(p, [loc[p] EXCEPT !.out = SelectSeq(ids, LAMBDA id : id \in DOMAIN users)])
    /\ UNCHANGED <<seqVars, postVars, otherVars, repoVars, mu, ncalls, fatal>>

\* handleGetFollowing up to its read of the index
HandleGetFollowingStart(p, u) ==
    /\ ~fatal
    /\ Starts(p)
    /\ IF u \notin DOMAIN users
       THEN Returns(p, [Loc("handleGetFollowing", u, 0) EXCEPT !.err = ErrUserNotFound])
       ELSE Goes(p, "hg_following", Loc("handleGetFollowing", u, 0))
    /\ UNCHANGED <<seqVars, postVars, otherVars, repoVars, mu, fatal>>

\* handleGetFollowing: the range over userFollowing[userID], and the response
HandleGetFollowingRead(p) ==
    /\ ~fatal
    /\ pc[p] = "hg_following"
    /\ \E ids \in Orders(InnerSet(userFollowing, loc[p].a)) :
           Returns(p, [loc[p] EXCEPT !.out = SelectSeq(ids, LAMBDA id : id \in DOMAIN users)])
    /\ UNCHANGED <<seqVars, postVars, otherVars, repoVars, mu, ncalls, fatal>>

\* handleGetFollowStatus up to its read of follows
HandleGetFollowStatusStart(p, a, b) ==
    /\ ~fatal
    /\ Starts(p)
    /\ Goes(p, "hs_status", Loc("handleGetFollowStatus", a, b))
    /\ UNCHANGED <<seqVars, postVars, otherVars, repoVars, mu, fatal>>

\* handleGetFollowStatus: _, isFollowing := follows[followKey], and the response
HandleGetFollowStatusRead(p) ==
    /\ ~fatal
    /\ pc[p] = "hs_status"
    /\ Returns(p, [loc[p] EXCEPT !.isFollowing = FollowKey(loc[p].a, loc[p].b) \in DOMAIN follows])
    /\ UNCHANGED <<seqVars, postVars, otherVars, repoVars, mu, ncalls, fatal>>

\* The map a handler standing at `at` reads or writes in its next step.
MapAt(at) ==
    CASE at \in {"hf_check", "hf_follows", "hu_check", "hu_follows", "hs_status"} -> "follows"
      [] at \in {"hf_followers", "hu_followers", "hg_followers"} -> "userFollowers"
      [] at \in {"hf_following", "hu_following", "hg_following"} -> "userFollowing"
      [] OTHER -> "none"

\* The handler standing at `at` writes that map in its next step.
WritesAt(at) ==
    at \in {"hf_follows", "hf_followers", "hf_following",
            "hu_follows", "hu_followers", "hu_following"}

\* Two handlers are about to access one map, one of them writing it: with no
\* lock the accesses may overlap, and the Go runtime may then end the process
\* ("fatal error: concurrent map writes", "concurrent map read and map write").
HandlerFatal ==
    /\ ~fatal
    /\ \E p, q \in Procs :
           /\ p # q
           /\ MapAt(pc[p]) # "none"
           /\ MapAt(pc[p]) = MapAt(pc[q])
           /\ WritesAt(pc[p])
    /\ fatal' = TRUE
    /\ UNCHANGED <<seqVars, postVars, otherVars, repoVars, mu, pc, loc, ncalls>>

MainNext ==
    \/ \E p \in Procs :
        \/ \E a, b \in ConcIds : HandleFollowStart(p, a, b)
        \/ HandleFollowCheck(p)
        \/ HandleFollowFollows(p)
        \/ HandleFollowFollowers(p)
        \/ HandleFollowFollowing(p)
        \/ \E a, b \in ConcIds : HandleUnfollowStart(p, a, b)
        \/ HandleUnfollowCheck(p)
        \/ HandleUnfollowFollows(p)
        \/ HandleUnfollowFollowers(p)
        \/ HandleUnfollowFollowing(p)
        \/ \E u \in ConcIds : HandleGetFollowersStart(p, u)
        \/ HandleGetFollowersRead(p)
        \/ \E u \in ConcIds : HandleGetFollowingStart(p, u)
        \/ HandleGetFollowingRead(p)
        \/ \E a, b \in ConcIds : HandleGetFollowStatusStart(p, a, b)
        \/ HandleGetFollowStatusRead(p)
    \/ HandlerFatal

SpecMain == FixtureInit /\ [][MainNext]_vars

\* ------------------------------------------------- InMemoryPostRepository

\* m[k] of a map[int][]int; a missing k reads as the nil slice.
ListAt(m, k) == IF k \in DOMAIN m THEN m[k] ELSE <<>>

\* models.Post
PostRec(id, userID, content, createdAt, updatedAt) ==
    [ID |-> id, UserID |-> userID, Content |-> content,
     CreatedAt |-> createdAt, UpdatedAt |-> updatedAt]

\* Mutant: Create numbers the post by the count of the stored posts.
PostCreateIDByCount(ps, next) == Cardinality(DOMAIN ps) + 1

\* Create: post.ID = r.nextPostID
PostCreateID(ps, next) == next

\* Create: r.nextPostID++
PostCreateNext(next) == next + 1

\* Create: r.posts[post.ID] = *post
PostCreatePosts(ps, post) == MapPut(ps, post.ID, post)

\* Create: r.userPosts[post.UserID] = append(r.userPosts[post.UserID], post.ID)
PostCreateUserPosts(up, post) ==
    MapPut(up, post.UserID, Append(ListAt(up, post.UserID), post.ID))

\* Update: the existence check
PostUpdateFound(ps, postID) == postID \in DOMAIN ps

\* Mutant: Update stamps the creation time as well.
PostUpdatePostsRestamped(ps, post) ==
    MapPut(ps, post.ID, [post EXCEPT !.CreatedAt = post.UpdatedAt])

\* Update: r.posts[post.ID] = *post
PostUpdatePosts(ps, post) == MapPut(ps, post.ID, post)

\* Delete: the existence check
PostDeleteFound(ps, postID) == postID \in DOMAIN ps

\* Delete: delete(r.posts, postID)
PostDeletePosts(ps, postID) == MapDelete(ps, postID)

\* s without its element at position i
RemoveAt(s, i) == SubSeq(s, 1, i - 1) \o SubSeq(s, i + 1, Len(s))

\* Mutant: Delete leaves the author's list alone.
PostDeleteUserPostsSkipped(up, post) == up

\* Delete: the first occurrence of the id is cut out of the author's list;
\* a list without the id, or a missing list, is left as it is.
PostDeleteUserPosts(up, post) ==
    LET l == ListAt(up, post.UserID)
        at == {i \in 1..Len(l) : l[i] = post.ID}
    IN  IF at = {} THEN up
        ELSE LET i == CHOOSE j \in at : \A k \in at : j <= k
             IN  [up EXCEPT ![post.UserID] = RemoveAt(l, i)]

\* Mutant: GetByID finds no post.
PostGetByIDNeverFinds(ps, postID) == TRUE

\* GetByID fails with "post not found"
PostGetByIDFails(ps, postID) == postID \notin DOMAIN ps

\* Mutant: the comparison the other way round, Before instead of After.
PostLessBefore(p, q) == p.CreatedAt < q.CreatedAt

\* The comparison handed to sort.Slice: posts[i].CreatedAt.After(posts[j].CreatedAt)
PostLess(p, q) == p.CreatedAt > q.CreatedAt

\* sort.Slice on a slice of fewer than 12 elements is an insertion sort:
\* each element moves left past the elements it is less than.
RECURSIVE SortInsert(_, _)
SortInsert(s, x) ==
    IF s = <<>> \/ ~PostLess(x, s[Len(s)]) THEN Append(s, x)
    ELSE Append(SortInsert(SubSeq(s, 1, Len(s) - 1), x), s[Len(s)])

RECURSIVE SortSlice(_)
SortSlice(s) ==
    IF s = <<>> THEN <<>>
    ELSE SortInsert(SortSlice(SubSeq(s, 1, Len(s) - 1)), s[Len(s)])

\* The loop of GetByUserID: the posts of the listed ids that are stored, in
\* the order of the list.
RECURSIVE PostsOfList(_, _)
PostsOfList(ps, l) ==
    IF l = <<>> THEN <<>>
    ELSE (IF l[1] \in DOMAIN ps THEN <<ps[l[1]]>> ELSE <<>>) \o PostsOfList(ps, Tail(l))

\* GetByUserID
PostGetByUserID(ps, up, userID) == SortSlice(PostsOfList(ps, ListAt(up, userID)))

\* Mutant: GetByUserIDs stops after the first user.
RECURSIVE PostsOfFirstUser(_, _, _)
PostsOfFirstUser(ps, up, userIDs) ==
    IF userIDs = <<>> THEN <<>> ELSE PostsOfList(ps, ListAt(up, userIDs[1]))

\* The loops of GetByUserIDs: user by user, each user's list in its order.
RECURSIVE PostsOfUsers(_, _, _)
PostsOfUsers(ps, up, userIDs) ==
    IF userIDs = <<>> THEN <<>>
    ELSE PostsOfList(ps, ListAt(up, userIDs[1])) \o PostsOfUsers(ps, up, Tail(userIDs))

\* GetByUserIDs
PostGetByUserIDs(ps, up, userIDs) == SortSlice(PostsOfUsers(ps, up, userIDs))

\* -------------------------------------------------------------- PostService

\* services.MaxPostContentLength
MaxPostContentLength == 300

\* strings.Repeat("a", n)
RECURSIVE Repeat(_)
Repeat(n) ==
    IF n = 0 THEN ""
    ELSE LET half == Repeat(n \div 2)
         IN  half \o half \o (IF n % 2 = 1 THEN "a" ELSE "")

\* The contents a caller passes: none, one unit, and the two lengths around
\* the limit.
Contents ==
    {Repeat(0), Repeat(1), Repeat(MaxPostContentLength), Repeat(MaxPostContentLength + 1)}

\* The users registered before the post service is called, as the tests'
\* setup registers them.
PostUserIds == {1, 2, 3}

\* The user ids a caller passes as a post's author or as the user whose posts
\* it lists: 0 is a missing user_id, 4 is not registered.
PostAuthorIds == {0, 1, 4}

\* The user ids a caller passes as the user who updates or deletes a post.
PostActorIds == {0, 1, 2}

\* The post ids a caller passes: 0 is a missing id, the others are assigned
\* sooner or later.
PostIds == 0..MaxPosts

\* Mutant: the limit is applied one unit early.
ValidateContentBelowLimit(content) ==
    IF Len(content) = 0 THEN ErrContentRequired
    ELSE IF Len(content) >= MaxPostContentLength THEN ErrContentTooLong
    ELSE Nil

\* The validation of a post's content.
ValidateContent(content) ==
    IF Len(content) = 0 THEN ErrContentRequired
    ELSE IF Len(content) > MaxPostContentLength THEN ErrContentTooLong
    ELSE Nil

\* The checks of CreatePost.
CreatePostErr(us, userID, content) ==
    IF userID = 0 THEN ErrUserIDRequired
    ELSE IF ValidateContent(content) # Nil THEN ValidateContent(content)
    ELSE IF UserGetByIDFails(us, userID) THEN ErrUserNotFound
    ELSE Nil

\* The ownership check of UpdatePost and DeletePost.
AuthorizeMutation(actingUserID, ownerID) == actingUserID = ownerID

\* The checks of UpdatePost.
UpdatePostErr(ps, postID, userID, content) ==
    IF postID = 0 \/ userID = 0 THEN ErrPostIDsRequired
    ELSE IF PostGetByIDFails(ps, postID) THEN ErrPostNotFound
    ELSE IF ~AuthorizeMutation(userID, ps[postID].UserID) THEN ErrUnauthorizedUpdate
    ELSE ValidateContent(content)

\* The checks of DeletePost.
DeletePostErr(ps, postID, userID) ==
    IF postID = 0 \/ userID = 0 THEN ErrPostIDsRequired
    ELSE IF PostGetByIDFails(ps, postID) THEN ErrPostNotFound
    ELSE IF ~AuthorizeMutation(userID, ps[postID].UserID) THEN ErrUnauthorizedDelete
    ELSE Nil

\* time.Now(): not before the last reading.
ClockReadings == {t \in {now, now + 1} : t <= MaxTime}

\* The variables the post service leaves alone.
followVars ==
    <<users, nextUserID, follows, userFollowers, userFollowing, call, pre, concVars,
      otherVars>>

\* PostService.CreatePost
CreatePost(userID, content) ==
    /\ nextPostID <= MaxPosts
    /\ ppre' = PostSnapshot
    /\ LET err == CreatePostErr(users, userID, content)
       IN  IF err # Nil
           THEN /\ pcall' = PostCall("CreatePost", 0, userID, content, err, <<>>)
                /\ UNCHANGED <<posts, userPosts, nextPostID, now, assigned>>
           ELSE \E t \in ClockReadings :
                    LET post == PostRec(PostCreateID(posts, nextPostID), userID, content, t, t)
                    IN  /\ posts' = PostCreatePosts(posts, post)
                        /\ userPosts' = PostCreateUserPosts(userPosts, post)
                        /\ nextPostID' = PostCreateNext(nextPostID)
                        /\ now' = t
                        /\ assigned' = Append(assigned, post.ID)
                        /\ pcall' = PostCall("CreatePost", post.ID, userID, content, Nil,
                                             <<post>>)
    /\ UNCHANGED <<followVars, dropped>>

\* PostService.UpdatePost
UpdatePost(postID, userID, content) ==
    /\ ppre' = PostSnapshot
    /\ LET err == UpdatePostErr(posts, postID, userID, content)
       IN  IF err # Nil
           THEN /\ pcall' = PostCall("UpdatePost", postID, userID, content, err, <<>>)
                /\ UNCHANGED <<posts, now>>
           ELSE \E t \in ClockReadings :
                    LET post == [posts[postID] EXCEPT !.Content = content, !.UpdatedAt = t]
                    IN  /\ posts' = PostUpdatePosts(posts, post)
                        /\ now' = t
                        /\ pcall' = PostCall("UpdatePost", postID, userID, content, Nil,
                                             <<post>>)
    /\ UNCHANGED <<userPosts, nextPostID, followVars, dropped, assigned>>

\* PostService.DeletePost
DeletePost(postID, userID) ==
    /\ ppre' = PostSnapshot
    /\ LET err == DeletePostErr(posts, postID, userID)
       IN  /\ pcall' = PostCall("DeletePost", postID, userID, "", err, <<>>)
           /\ IF err # Nil
              THEN UNCHANGED <<posts, userPosts>>
              ELSE /\ posts' = PostDeletePosts(posts, postID)
                   /\ userPosts' = PostDeleteUserPosts(userPosts, posts[postID])
    /\ UNCHANGED <<nextPostID, now, followVars, dropped, assigned>>

\* PostService.GetUserPosts
GetUserPosts(userID) ==
    /\ ppre' = PostSnapshot
    /\ pcall' = IF UserGetByIDFails(users, userID)
                THEN PostCall("GetUserPosts", 0, userID, "", ErrUserNotFound, <<>>)
                ELSE PostCall("GetUserPosts", 0, userID, "", Nil,
                              PostGetByUserID(posts, userPosts, userID))
    /\ UNCHANGED <<posts, userPosts, nextPostID, now, followVars, dropped, assigned>>

\* The repositories after the setup of the post service's tests.
PostFixtureInit ==
    /\ users = [id \in PostUserIds |-> [ID |-> id]]
    /\ nextUserID = Cardinality(PostUserIds) + 1
    /\ follows = EmptyMap
    /\ userFollowers = EmptyMap
    /\ userFollowing = EmptyMap
    /\ call = NoCall
    /\ pre = [follows |-> EmptyMap, userFollowers |-> EmptyMap, userFollowing |-> EmptyMap]
    /\ ConcInit
    /\ PostInit
    /\ OtherInit

PostNext ==
    \/ \E u \in PostAuthorIds, c \in Contents : CreatePost(u, c)
    \/ \E id \in PostIds, u \in PostActorIds, c \in Contents : UpdatePost(id, u, c)
    \/ \E id \in PostIds, u \in PostActorIds : DeletePost(id, u)
    \/ \E u \in PostAuthorIds : GetUserPosts(u)

SpecPost == PostFixtureInit /\ [][PostNext]_vars

\* ------------------- SpecPostConc: creations through GetNextPostID and Create

\* The repository variant whose Create stores the post under the id its caller
\* set: the caller reads the id with GetNextPostID first. GetNextPostID holds
\* the read lock and Create the write lock for their whole bodies, so each is
\* one step; between the two the caller holds no lock.

\* The authors of the concurrent creations.
ConcAuthorIds == {1, 2}

\* CreatePost up to its call of GetNextPostID (the author is registered and
\* the content valid).
ConcCreatePostStart(p, userID) ==
    /\ Starts(p)
    /\ Goes(p, "next_post_id", Loc("CreatePost", userID, 0))
    /\ UNCHANGED <<seqVars, repoVars, mu, fatal, postVars, otherVars>>

\* GetNextPostID: return r.nextPostID
ConcGetNextPostID(p) ==
    /\ pc[p] = "next_post_id"
    /\ Goes(p, "post_create", [loc[p] EXCEPT !.b = nextPostID])
    /\ UNCHANGED <<seqVars, repoVars, mu, ncalls, fatal, postVars, otherVars>>

\* Create(post models.Post): the post is stored under the id it carries, the
\* id is appended to its author's list, and the counter grows by one.
ConcPostCreate(p) ==
    /\ pc[p] = "post_create"
    /\ \E t \in ClockReadings :
           LET post == PostRec(loc[p].b, loc[p].a, Repeat(1), t, t)
           IN  /\ posts' = MapPut(posts, post.ID, post)
               /\ userPosts' = MapPut(userPosts, post.UserID,
                                      Append(ListAt(userPosts, post.UserID), post.ID))
               /\ nextPostID' = nextPostID + 1
               /\ now' = t
               /\ assigned' = Append(assigned, post.ID)
               /\ Returns(p, [loc[p] EXCEPT !.dup = post.ID \in DOMAIN posts])
    /\ UNCHANGED <<seqVars, repoVars, mu, ncalls, fatal, pcall, ppre, dropped, otherVars>>

PostConcNext ==
    \E p \in Procs :
        \/ \E u \in ConcAuthorIds : ConcCreatePostStart(p, u)
        \/ ConcGetNextPostID(p)
        \/ ConcPostCreate(p)

SpecPostConc == PostFixtureInit /\ [][PostConcNext]_vars

\* ---------------------------------------- SpecTimeline: follows and posts

\* The user who follows, unfollows and reads a timeline.
TimelineFollowerIds == {1}

\* The users who get followed.
TimelineAuthorIds == {2, 3}

\* The users who post: the followed ones and the viewer itself.
TimelinePosterIds == {1, 2, 3}

\* The users whose timeline is read: 4 is not registered.
TimelineViewerIds == {1, 4}

\* The record of a completed Follow or Unfollow, kept where the post
\* service's calls are kept.
FollowCall(op, followerID, followingID, err) ==
    [op |-> op, postID |-> 0, userID |-> followerID, followingID |-> followingID,
     content |-> "", err |-> err, out |-> <<>>, count |-> 0]

\* FollowService.Follow, between the calls of the post service
TimelineFollow(followerID, followingID) ==
    LET e1 == FollowPreErr(users, followerID, followingID)
        e2 == FollowDupErr(follows, followerID, followingID)
        err == IF e1 # Nil THEN e1 ELSE e2
        f == FollowRec(followerID, followingID)
    IN  /\ pcall' = FollowCall("Follow", followerID, followingID, err)
        /\ ppre' = PostSnapshot
        /\ IF err = Nil
           THEN /\ follows' = CreateFollows(follows, f)
                /\ userFollowers' = CreateFollowers(userFollowers, f)
                /\ userFollowing' = CreateFollowing(userFollowing, f)
                /\ dropped' = dropped \ {<<followerID, followingID>>}
           ELSE UNCHANGED <<repoVars, dropped>>
        /\ UNCHANGED <<users, nextUserID, call, pre, concVars, otherVars,
                       posts, userPosts, nextPostID, now, assigned>>

\* FollowService.Unfollow, between the calls of the post service
TimelineUnfollow(followerID, followingID) ==
    LET e1 == UnfollowPreErr(followerID, followingID)
        err == IF e1 # Nil THEN e1
               ELSE IF DeleteFound(follows, followerID, followingID) THEN Nil
               ELSE ErrRelNotFound
    IN  /\ pcall' = FollowCall("Unfollow", followerID, followingID, err)
        /\ ppre' = PostSnapshot
        /\ IF err = Nil
           THEN /\ follows' = DeleteFollows(follows, followerID, followingID)
                /\ userFollowers' = DeleteFollowers(userFollowers, followerID, followingID)
                /\ userFollowing' = DeleteFollowing(userFollowing, followerID, followingID)
                /\ dropped' = dropped \cup {<<followerID, followingID>>}
           ELSE UNCHANGED <<repoVars, dropped>>
        /\ UNCHANGED <<users, nextUserID, call, pre, concVars, otherVars,
                       posts, userPosts, nextPostID, now, assigned>>

\* PostService.GetTimeline: the viewer is looked up, its following ids are
\* read in the order the map yields them, and GetByUserIDs of them is returned.
GetTimeline(userID) ==
    /\ ppre' = PostSnapshot
    /\ IF UserGetByIDFails(users, userID)
       THEN pcall' = PostCall("GetTimeline", 0, userID, "", ErrUserNotFound, <<>>)
       ELSE \E ids \in Orders(RepoGetFollowing(userFollowing, userID)) :
                pcall' = PostCall("GetTimeline", 0, userID, "", Nil,
                                  PostGetByUserIDs(posts, userPosts, ids))
    /\ UNCHANGED <<posts, userPosts, nextPostID, now, followVars, dropped, assigned>>

TimelineNext ==
    \/ \E a \in TimelineFollowerIds, b \in TimelineAuthorIds : TimelineFollow(a, b)
    \/ \E a \in TimelineFollowerIds, b \in TimelineAuthorIds : TimelineUnfollow(a, b)
    \/ \E u \in TimelinePosterIds : CreatePost(u, Repeat(1))
    \/ \E id \in PostIds, u \in TimelinePosterIds : DeletePost(id, u)
    \/ \E u \in TimelinePosterIds : GetUserPosts(u)
    \/ \E v \in TimelineViewerIds : GetTimeline(v)

SpecTimeline == PostFixtureInit /\ [][TimelineNext]_vars

\* --------------------- SpecSelf: users who follow, post and read timelines

\* Every one of these users follows and unfollows every one of them, itself
\* included, posts, and reads its timeline.
SelfIds == {1, 2}

SelfNext ==
    \/ \E a, b \in SelfIds : TimelineFollow(a, b)
    \/ \E a, b \in SelfIds : TimelineUnfollow(a, b)
    \/ \E u \in SelfIds : CreatePost(u, Repeat(1))
    \/ \E v \in SelfIds : GetTimeline(v)

SpecSelf == PostFixtureInit /\ [][SelfNext]_vars

\* ------------------------------------------------- main.go: handleSignup

\* The fields of the request bodies: "" is what a missing JSON field decodes to.
SignupNames == {"", "User 1"}
SignupEmails == {"", "user1@example.com", "user2@example.com", "user3@example.com"}
SignupPasswords == {"", "pass1", "pass2"}

\* User{ID, Name, Email, Password, Profile}
UserRec(userID, name, email, password) ==
    [ID |-> userID, Name |-> name, Email |-> email, Password |-> password, Profile |-> ""]

\* Mutant: the loop compares the names, not the emails.
EmailTakenByName(us, email) == \E id \in DOMAIN us : us[id].Name = email

\* for _, user := range users { if user.Email == req.Email
EmailTaken(us, email) == \E id \in DOMAIN us : us[id].Email = email

\* The checks of handleSignup, in their order.
SignupErr(us, name, email, password) ==
    IF name = "" \/ email = "" \/ password = "" THEN ErrSignupRequired
    ELSE IF EmailTaken(us, email) THEN ErrEmailExists
    ELSE Nil

\* Mutant: the counter is advanced before it is read.
SignupUserIDAfter(next) == next + 1

\* userID := nextUserID
SignupUserID(next) == next

\* nextUserID++
SignupIncrement(next) == next + 1

\* handleSignup, served alone from the decoded body to the response
HandleSignup(name, email, password) ==
    LET err == SignupErr(users, name, email, password)
        userID == SignupUserID(nextUserID)
    IN  /\ upre' = UserSnapshot
        /\ IF err # Nil
           THEN /\ ucall' = UserCall("handleSignup", name, email, password, err, 0, "")
                /\ UNCHANGED <<users, nextUserID, issued>>
           ELSE /\ nextUserID <= MaxUsers
                /\ nextUserID' = SignupIncrement(nextUserID)
                /\ users' = MapPut(users, userID, UserRec(userID, name, email, password))
                /\ issued' = Append(issued, userID)
                /\ ucall' = UserCall("handleSignup", name, email, password, Nil, userID, "")
        /\ UNCHANGED <<repoVars, call, pre, concVars, postVars, gormVars>>

SignupNext ==
    \E name \in SignupNames, email \in SignupEmails, password \in SignupPasswords :
        HandleSignup(name, email, password)

SpecSignup == Init /\ [][SignupNext]_vars

\* --------------------------- SpecSignupConc: handleSignup, concurrently

\* The emails the concurrent requests carry.
ConcSignupEmails == {"user1@example.com", "user2@example.com"}

\* A goroutine's signup: the request, the id it read from the counter, its
\* error, and over: its store replaced a user stored under the same id.
SignupLoc(name, email, password) ==
    [op |-> "handleSignup", name |-> name, email |-> email, password |-> password,
     err |-> Nil, userID |-> 0, over |-> FALSE]

\* handleSignup up to its loop over the users: the decoding and the
\* required-field check
HandleSignupStart(p, name, email, password) ==
    /\ ~fatal
    /\ Starts(p)
    /\ IF name = "" \/ email = "" \/ password = ""
       THEN Returns(p, [SignupLoc(name, email, password) EXCEPT !.err = ErrSignupRequired])
       ELSE Goes(p, "su_emails", SignupLoc(name, email, password))
    /\ UNCHANGED <<seqVars, postVars, otherVars, repoVars, mu, fatal>>

\* handleSignup: for _, user := range users { if user.Email == req.Email
HandleSignupEmails(p) ==
    /\ ~fatal
    /\ pc[p] = "su_emails"
    /\ IF EmailTaken(users, loc[p].email)
       THEN Returns(p, [loc[p] EXCEPT !.err = ErrEmailExists])
       ELSE Goes(p, "su_id", loc[p])
    /\ UNCHANGED <<seqVars, postVars, otherVars, repoVars, mu, ncalls, fatal>>

\* handleSignup: userID := nextUserID
HandleSignupID(p) ==
    /\ ~fatal
    /\ pc[p] = "su_id"
    /\ Goes(p, "su_incr", [loc[p] EXCEPT !.userID = SignupUserID(nextUserID)])
    /\ UNCHANGED <<seqVars, postVars, otherVars, repoVars, mu, ncalls, fatal>>

\* handleSignup: nextUserID++. The counter is shared and unguarded: the
\* increment writes one more than the value it finds, or one more than the
\* value this goroutine read a statement earlier and kept in a register.
HandleSignupIncr(p) ==
    /\ ~fatal
    /\ pc[p] = "su_incr"
    /\ \E seen \in {nextUserID, loc[p].userID} : nextUserID' = SignupIncrement(seen)
    /\ Goes(p, "su_store", loc[p])
    /\ UNCHANGED <<users, call, pre, postVars, otherVars, repoVars, mu, ncalls, fatal>>

\* handleSignup: users[userID] = newUser, and the response
HandleSignupStore(p) ==
    /\ ~fatal
    /\ pc[p] = "su_store"
    /\ users' = MapPut(users, loc[p].userID,
                       UserRec(loc[p].userID, loc[p].name, loc[p].email, loc[p].password))
    /\ issued' = Append(issued, loc[p].userID)
    /\ Returns(p, [loc[p] EXCEPT !.over = loc[p].userID \in DOMAIN users])
    /\ UNCHANGED <<nextUserID, call, pre, postVars, ucall, upre, gormVars, repoVars, mu,
                   ncalls, fatal>>

\* Two signups are about to access the users map, one of them storing into
\* it: with no lock the accesses may overlap, and the Go runtime may then end
\* the process ("fatal error: concurrent map writes", "concurrent map
\* iteration and map write").
SignupFatal ==
    /\ ~fatal
    /\ \E p, q \in Procs :
           /\ p # q
           /\ pc[p] = "su_store"
           /\ pc[q] \in {"su_store", "su_emails"}
    /\ fatal' = TRUE
    /\ UNCHANGED <<seqVars, postVars, otherVars, repoVars, mu, pc, loc, ncalls>>

SignupConcNext ==
    \/ \E p \in Procs :
        \/ \E name \in SignupNames, email \in ConcSignupEmails \cup {""} :
               HandleSignupStart(p, name, email, "pass1")
        \/ HandleSignupEmails(p)
        \/ HandleSignupID(p)
        \/ HandleSignupIncr(p)
        \/ HandleSignupStore(p)
    \/ SignupFatal

SpecSignupConc == Init /\ [][SignupConcNext]_vars

\* ------------------------------------------------ SpecAuth: AuthService.Login

\* The emails and passwords of the login requests ("" is a missing field),
\* and the values of the JWT_SECRET environment variable.
LoginEmails == {"", "hong@test.com", "nonexistent@test.com"}
LoginPasswords == {"", "password123", "wrongpassword"}
Secrets == {"", "test_secret_key_for_testing"}

\* The emails and the passwords users are stored with.
StoredEmails == {"hong@test.com", "kim@test.com"}
StoredPasswords == {"password123", "wrongpassword"}

\* The bcrypt hash stored for a password: not the password itself, and
\* different for different passwords.
BcryptHash(password) == "$2a$10$" \o password

\* bcrypt.CompareHashAndPassword(hash, password) == nil
BcryptMatches(hash, password) == hash = BcryptHash(password)

\* generateToken: the signed claims, here the claims and the key.
Token(userID, email, secret) == <<userID, email, secret>>

\* The response of a login that failed.
LoginFailed(err) == [err |-> err, token |-> "", userID |-> 0]

\* Mutant: the error of the failed lookup is passed on as it is.
LoginOutcomesLookupPassedOn(us, email, password, secret) ==
    IF email = "" \/ password = "" THEN {LoginFailed(ErrLoginRequired)}
    ELSE IF ~EmailTaken(us, email) THEN {LoginFailed(ErrUserNotFound)}
    ELSE {IF ~BcryptMatches(us[id].HashedPassword, password) THEN LoginFailed(ErrInvalidLogin)
          ELSE IF secret = "" THEN LoginFailed(ErrNoSecret)
          ELSE [err |-> Nil, token |-> Token(id, email, secret), userID |-> id] :
          id \in {i \in DOMAIN us : us[i].Email = email}}

\* AuthService.Login: the responses it can give. GetByEmail returns the
\* first user with the email that its range over the map meets, any of them
\* when several carry it.
LoginOutcomes(us, email, password, secret) ==
    IF email = "" \/ password = "" THEN {LoginFailed(ErrLoginRequired)}
    ELSE IF ~EmailTaken(us, email) THEN {LoginFailed(ErrInvalidLogin)}
    ELSE {IF ~BcryptMatches(us[id].HashedPassword, password) THEN LoginFailed(ErrInvalidLogin)
          ELSE IF secret = "" THEN LoginFailed(ErrNoSecret)
          ELSE [err |-> Nil, token |-> Token(id, email, secret), userID |-> id] :
          id \in {i \in DOMAIN us : us[i].Email = email}}

\* AuthService.Login
Login(email, password, secret) ==
    /\ upre' = UserSnapshot
    /\ \E r \in LoginOutcomes(users, email, password, secret) :
           ucall' = UserCall("Login", "", email, password, r.err, r.userID, r.token)
    /\ UNCHANGED <<users, nextUserID, issued, repoVars, call, pre, concVars, postVars,
                   gormVars>>

\* InMemoryUserRepository.Create of a user carrying the hash of its password
AuthUserCreate(email, password) ==
    /\ nextUserID <= MaxUsers
    /\ upre' = UserSnapshot
    /\ users' = MapPut(users, nextUserID,
                       [ID |-> nextUserID, Name |-> "", Email |-> email,
                        HashedPassword |-> BcryptHash(password)])
    /\ nextUserID' = nextUserID + 1
    /\ issued' = Append(issued, nextUserID)
    /\ ucall' = UserCall("Create", "", email, password, Nil, nextUserID, "")
    /\ UNCHANGED <<repoVars, call, pre, concVars, postVars, gormVars>>

AuthNext ==
    \/ \E email \in StoredEmails, password \in StoredPasswords : AuthUserCreate(email, password)
    \/ \E email \in LoginEmails, password \in LoginPasswords, secret \in Secrets :
           Login(email, password, secret)

SpecAuth == Init /\ [][AuthNext]_vars

\* --------------------------------------------------- GormFollowRepository

\* GormFollowRepository.Exists: the count of the matching rows is positive;
\* when the query fails count keeps its zero value and the error is dropped.
GormExists(rs, a, b, down) == ~down /\ <<a, b>> \in rs

\* GormFollowRepository.Create: the error of the insert, which the table's
\* unique key on (user_id, follow_user_id) refuses for a stored pair.
GormCreateErr(rs, a, b, down) ==
    IF down THEN ErrBadConnection
    ELSE IF <<a, b>> \in rs THEN ErrDuplicatedKey
    ELSE Nil

\* GormFollowRepository.Delete: the error of the delete, or 'not found' when
\* no row was affected.
GormDeleteErr(rs, a, b, down) ==
    IF down THEN ErrBadConnection
    ELSE IF <<a, b>> \notin rs THEN ErrRelNotFound
    ELSE Nil

\* GormFollowRepository.GetFollowers and GetFollowing: the ids of the
\* matching rows.
GormGetFollowers(rs, u) == {r[1] : r \in {x \in rs : x[2] = u}}

GormGetFollowing(rs, u) == {r[2] : r \in {x \in rs : x[1] = u}}

\* ----------------- SpecFault: the follow service over a failing database

\* The ids the callers pass: the two registered users and one that is not.
FaultIds == {1, 2, 3}

\* FollowService.Follow over the relational repository; existsDown and
\* createDown say whether the database fails the query of Exists and the
\* insert of Create. failed: a repository call this operation made failed.
FaultyFollow(a, b, existsDown, createDown) ==
    LET e1 == FollowPreErr(users, a, b)
        found == GormExists(rows, a, b, existsDown)
        e2 == GormCreateErr(rows, a, b, createDown)
        err == IF e1 # Nil THEN e1
               ELSE IF found THEN ErrAlready
               ELSE IF e2 # Nil THEN "failed to create follow: " \o e2
               ELSE Nil
        failed == e1 = Nil /\ (existsDown \/ (~found /\ createDown))
    IN  /\ gcall' = [op |-> "Follow", a |-> a, b |-> b, err |-> err, out |-> <<>>,
                     failed |-> failed]
        /\ rows' = IF err = Nil THEN rows \cup {<<a, b>>} ELSE rows
        /\ UNCHANGED <<users, nextUserID, repoVars, call, pre, concVars, postVars,
                       ucall, upre, issued>>

\* FollowService.Unfollow over the relational repository; deleteDown says
\* whether the database fails the delete.
FaultyUnfollow(a, b, deleteDown) ==
    LET e1 == UnfollowPreErr(a, b)
        e2 == GormDeleteErr(rows, a, b, deleteDown)
        err == IF e1 # Nil THEN e1 ELSE e2
    IN  /\ gcall' = [op |-> "Unfollow", a |-> a, b |-> b, err |-> err, out |-> <<>>,
                     failed |-> e1 = Nil /\ deleteDown]
        /\ rows' = IF err = Nil THEN rows \ {<<a, b>>} ELSE rows
        /\ UNCHANGED <<users, nextUserID, repoVars, call, pre, concVars, postVars,
                       ucall, upre, issued>>

\* FollowService.GetFollowers (op = "GetFollowers") and GetFollowing over the
\* relational repositories; listDown says whether the database fails the
\* query of the ids, and lookupDown for which of the ids it fails GetByID
\* in the conversion loop. failed: a repository call this operation made
\* failed.
FaultyList(op, u, listDown, lookupDown) ==
    LET found == IF op = "GetFollowers" THEN GormGetFollowers(rows, u)
                 ELSE GormGetFollowing(rows, u)
    IN  /\ lookupDown \subseteq found
        /\ (listDown \/ UserGetByIDFails(users, u)) => lookupDown = {}
        /\ IF UserGetByIDFails(users, u)
           THEN gcall' = [op |-> op, a |-> u, b |-> 0, err |-> ErrUserNotFound,
                          out |-> <<>>, failed |-> FALSE]
           ELSE IF listDown
           THEN gcall' = [op |-> op, a |-> u, b |-> 0,
                          err |-> (IF op = "GetFollowers" THEN "failed to get followers: "
                                   ELSE "failed to get following: ") \o ErrBadConnection,
                          out |-> <<>>, failed |-> TRUE]
           ELSE \E ids \in Orders(found) :
                    gcall' = [op |-> op, a |-> u, b |-> 0, err |-> Nil,
                              out |-> SelectSeq(Resolved(users, ids),
                                                LAMBDA id : id \notin lookupDown),
                              failed |-> lookupDown # {}]
        /\ UNCHANGED <<users, nextUserID, repoVars, call, pre, concVars, postVars,
                       ucall, upre, issued, rows>>

FaultNext ==
    \/ \E a, b \in FaultIds, existsDown, createDown \in BOOLEAN :
           FaultyFollow(a, b, existsDown, createDown)
    \/ \E a, b \in FaultIds, deleteDown \in BOOLEAN : FaultyUnfollow(a, b, deleteDown)
    \/ \E op \in {"GetFollowers", "GetFollowing"}, u \in FaultIds, listDown \in BOOLEAN,
          lookupDown \in SUBSET FaultIds :
           FaultyList(op, u, listDown, lookupDown)

SpecFault == FixtureInit /\ [][FaultNext]_vars

\* ------------------- SpecPair: the same calls made on both repositories

\* The ids the calls carry.
PairIds == {1, 2}

\* The result of one repository call: its error and what it returned.
Result(err, out) == [err |-> err, out |-> out]

PairUnchanged ==
    UNCHANGED <<users, nextUserID, call, pre, concVars, postVars, ucall, upre, issued>>

\* Create(follow) on the in-memory and on the relational repository
PairCreate(a, b) ==
    LET f == FollowRec(a, b)
        e == GormCreateErr(rows, a, b, FALSE)
    IN  /\ follows' = CreateFollows(follows, f)
        /\ userFollowers' = CreateFollowers(userFollowers, f)
        /\ userFollowing' = CreateFollowing(userFollowing, f)
        /\ rows' = IF e = Nil THEN rows \cup {<<a, b>>} ELSE rows
        /\ gcall' = [op |-> "Create", a |-> a, b |-> b,
                     mem |-> Result(Nil, {}), gorm |-> Result(e, {})]
        /\ PairUnchanged

\* Delete(userID, followUserID) on both
PairDelete(a, b) ==
    LET e == GormDeleteErr(rows, a, b, FALSE)
    IN  /\ IF DeleteFound(follows, a, b)
           THEN /\ follows' = DeleteFollows(follows, a, b)
                /\ userFollowers' = DeleteFollowers(userFollowers, a, b)
                /\ userFollowing' = DeleteFollowing(userFollowing, a, b)
           ELSE UNCHANGED repoVars
        /\ rows' = IF e = Nil THEN rows \ {<<a, b>>} ELSE rows
        /\ gcall' = [op |-> "Delete", a |-> a, b |-> b,
                     mem |-> Result(IF DeleteFound(follows, a, b) THEN Nil
                                    ELSE ErrRelNotFound, {}),
                     gorm |-> Result(e, {})]
        /\ PairUnchanged

\* Exists(a, b), GetFollowers(a) and GetFollowing(a) on both
PairRead(op, a, b) ==
    /\ gcall' =
           [op |-> op, a |-> a, b |-> b,
            mem |-> Result(Nil, CASE op = "Exists" -> {RepoExists(follows, a, b)}
                                  [] op = "GetFollowers" -> RepoGetFollowers(userFollowers, a)
                                  [] op = "GetFollowing" -> RepoGetFollowing(userFollowing, a)),
            gorm |-> Result(Nil, CASE op = "Exists" -> {GormExists(rows, a, b, FALSE)}
                                   [] op = "GetFollowers" -> GormGetFollowers(rows, a)
                                   [] op = "GetFollowing" -> GormGetFollowing(rows, a))]
    /\ UNCHANGED <<repoVars, rows>>
    /\ PairUnchanged

PairNext ==
    \/ \E a, b \in PairIds : PairCreate(a, b)
    \/ \E a, b \in PairIds : PairDelete(a, b)
    \/ \E op \in {"Exists", "GetFollowers", "GetFollowing"}, a, b \in PairIds :
           PairRead(op, a, b)

SpecPair == Init /\ [][PairNext]_vars

\* ------------------ SpecAuthz: the follow handlers behind AuthMiddleware

\* The Authorization headers of the requests, split at the first blank: none,
\* one part only, another scheme, and Bearer tokens. A token is written as
\* the user id of its claims, 0 for a token ValidateToken refuses.
AuthHeaders == {<<>>, <<"Bearer">>, <<"Basic", 1>>, <<"Bearer", 0>>, <<"Bearer", 1>>,
                <<"Bearer", 2>>}

\* AuthMiddleware: the error it answers with instead of calling the handler.
AuthMiddlewareErr(authHeader) ==
    IF authHeader = <<>> THEN "authorization header required"
    ELSE IF Len(authHeader) # 2 \/ authHeader[1] # "Bearer"
    THEN "invalid authorization header format"
    ELSE IF authHeader[2] = 0 THEN "invalid or expired token"
    ELSE Nil

\* The request as the handlers' caller sees it: actor is claims.UserID, which
\* the middleware puts in the request context (0 when it refused the request).
Request(op, authHeader, followerID, followingID, err) ==
    [op |-> op,
     actor |-> IF AuthMiddlewareErr(authHeader) = Nil THEN authHeader[2] ELSE 0,
     a |-> followerID, b |-> followingID, err |-> err]

AuthzUnchanged ==
    UNCHANGED <<users, nextUserID, call, pre, concVars, postVars, ucall, upre, issued, rows>>

\* POST /api/users/{userID}/follow: AuthMiddleware, then
\* FollowHandler.HandleFollow, which calls Follow(req.FollowerID, followingID)
HandleFollowAs(authHeader, followerID, followingID) ==
    LET e0 == AuthMiddlewareErr(authHeader)
        e1 == FollowPreErr(users, followerID, followingID)
        e2 == FollowDupErr(follows, followerID, followingID)
        err == IF e0 # Nil THEN e0 ELSE IF e1 # Nil THEN e1 ELSE e2
        f == FollowRec(followerID, followingID)
    IN  /\ gcall' = Request("HandleFollow", authHeader, followerID, followingID, err)
        /\ IF err = Nil
           THEN /\ follows' = CreateFollows(follows, f)
                /\ userFollowers' = CreateFollowers(userFollowers, f)
                /\ userFollowing' = CreateFollowing(userFollowing, f)
           ELSE UNCHANGED repoVars
        /\ AuthzUnchanged

\* DELETE /api/users/{userID}/follow: AuthMiddleware, then
\* FollowHandler.HandleUnfollow, which calls Unfollow(req.FollowerID, followingID)
HandleUnfollowAs(authHeader, followerID, followingID) ==
    LET e0 == AuthMiddlewareErr(authHeader)
        e1 == UnfollowPreErr(followerID, followingID)
        err == IF e0 # Nil THEN e0
               ELSE IF e1 # Nil THEN e1
               ELSE IF DeleteFound(follows, followerID, followingID) THEN Nil
               ELSE ErrRelNotFound
    IN  /\ gcall' = Request("HandleUnfollow", authHeader, followerID, followingID, err)
        /\ IF err = Nil
           THEN /\ follows' = DeleteFollows(follows, followerID, followingID)
                /\ userFollowers' = DeleteFollowers(userFollowers, followerID, followingID)
                /\ userFollowing' = DeleteFollowing(userFollowing, followerID, followingID)
           ELSE UNCHANGED repoVars
        /\ AuthzUnchanged

AuthzNext ==
    \/ \E authHeader \in AuthHeaders, a, b \in Ids : HandleFollowAs(authHeader, a, b)
    \/ \E authHeader \in AuthHeaders, a, b \in Ids : HandleUnfollowAs(authHeader, a, b)

SpecAuthz == FixtureInit /\ [][AuthzNext]_vars

\* ------------- SpecLocks: the locks of the three in-memory repositories

\* The repositories, each with one sync.RWMutex.
Repos == {"follow", "user", "post"}

\* The core operations that goroutines call.
LockOps ==
    {"Follow", "Unfollow", "GetFollowers", "GetFollowing",
     "PostCreate", "PostGetByUserIDs", "UserCreate", "UserGetByEmail"}

\* The repository methods an operation calls, in order, each with the lock
\* its first statement takes: "R" for mu.RLock(), "W" for mu.Lock(). The
\* lookup loop of GetFollowers and GetFollowing stands with one round.
LockPlan(op) ==
    CASE op = "Follow" ->
             <<<<"user", "R">>, <<"user", "R">>, <<"follow", "R">>, <<"follow", "W">>>>
      [] op = "Unfollow" -> <<<<"follow", "W">>>>
      [] op \in {"GetFollowers", "GetFollowing"} ->
             <<<<"user", "R">>, <<"follow", "R">>, <<"user", "R">>>>
      [] op \in {"PostCreate", "UserCreate"} ->
             <<<<IF op = "PostCreate" THEN "post" ELSE "user", "W">>>>
      [] op = "PostGetByUserIDs" -> <<<<"post", "R">>>>
      [] op = "UserGetByEmail" -> <<<<"user", "R">>>>

\* Mutant: Follow keeps the read lock of Exists while it calls Create.
HeldAcrossExists(op, i) == op = "Follow" /\ i = 3

\* Whether the lock of the i-th method of op is still held when the next
\* method is called: never, every method unlocks in a defer and no method
\* calls another one.
HeldAcross(op, i) == FALSE

\* A sync.RWMutex with the writers that have announced themselves: RLock
\* waits for them as well.
LockUnlocked == [writer |-> 0, readers |-> {}, waiting |-> {}]

\* The mutex m once p holds nothing of it.
Released(m, p) ==
    [m EXCEPT !.writer = IF @ = p THEN 0 ELSE @, !.readers = @ \ {p}]

\* The locks p holds.
Holds(p) == {r \in Repos : mu[r].writer = p \/ p \in mu[r].readers}

\* A goroutine between calls.
NoLockCall == [op |-> "none", i |-> 0]

\* The method p is about to call or is in.
LockStep(p) == LockPlan(loc[p].op)[loc[p].i]

LocksInit ==
    /\ users = [id \in ConcIds |-> [ID |-> id]]
    /\ nextUserID = Cardinality(ConcIds) + 1
    /\ follows = EmptyMap
    /\ userFollowers = EmptyMap
    /\ userFollowing = EmptyMap
    /\ call = NoCall
    /\ pre = [follows |-> EmptyMap, userFollowers |-> EmptyMap, userFollowing |-> EmptyMap]
    /\ mu = [r \in Repos |-> LockUnlocked]
    /\ pc = [p \in Procs |-> "idle"]
    /\ loc = [p \in Procs |-> NoLockCall]
    /\ ncalls = 0
    /\ fatal = FALSE
    /\ PostInit
    /\ OtherInit

LocksUnchanged == UNCHANGED <<seqVars, postVars, otherVars, repoVars, fatal>>

\* A goroutine calls an operation.
LockCall(p, op) ==
    /\ Starts(p)
    /\ Goes(p, "method", [op |-> op, i |-> 1])
    /\ UNCHANGED mu
    /\ LocksUnchanged

\* mu.RLock() of the method: it returns once no writer holds the mutex or
\* waits for it.
LockRLock(p) ==
    /\ pc[p] = "method" /\ LockStep(p)[2] = "R"
    /\ LET r == LockStep(p)[1]
       IN  /\ CanRLock(mu[r]) /\ mu[r].waiting = {}
           /\ mu' = [mu EXCEPT ![r].readers = @ \cup {p}]
    /\ Goes(p, "locked", loc[p])
    /\ UNCHANGED ncalls
    /\ LocksUnchanged

\* mu.Lock() of the method, first half: the writer announces itself.
LockAnnounce(p) ==
    /\ pc[p] = "method" /\ LockStep(p)[2] = "W"
    /\ mu' = [mu EXCEPT ![LockStep(p)[1]].waiting = @ \cup {p}]
    /\ Goes(p, "waiting", loc[p])
    /\ UNCHANGED ncalls
    /\ LocksUnchanged

\* mu.Lock() of the method, second half: it returns once no goroutine holds
\* the mutex.
LockLock(p) ==
    /\ pc[p] = "waiting"
    /\ LET r == LockStep(p)[1]
       IN  /\ CanLock(mu[r])
           /\ mu' = [mu EXCEPT ![r].writer = p, ![r].waiting = @ \ {p}]
    /\ Goes(p, "locked", loc[p])
    /\ UNCHANGED ncalls
    /\ LocksUnchanged

\* The method returns and its deferred unlock runs; the operation calls its
\* next method, or returns: after its last method, or before with an error.
LockReturn(p) ==
    /\ pc[p] = "locked"
    /\ \E last \in {loc[p].i = Len(LockPlan(loc[p].op)), TRUE} :
           IF last
           THEN /\ mu' = [r \in Repos |-> Released(mu[r], p)]
                /\ Returns(p, NoLockCall)
           ELSE /\ mu' = IF HeldAcross(loc[p].op, loc[p].i)
                         THEN mu
                         ELSE [r \in Repos |-> Released(mu[r], p)]
                /\ Goes(p, "method", [loc[p] EXCEPT !.i = @ + 1])
    /\ UNCHANGED ncalls
    /\ LocksUnchanged

\* The steps of a call that the goroutine has started.
LockRun(p) == LockRLock(p) \/ LockAnnounce(p) \/ LockLock(p) \/ LockReturn(p)

LocksNext ==
    \E p \in Procs :
        \/ \E op \in LockOps : LockCall(p, op)
        \/ LockRLock(p)
        \/ LockAnnounce(p)
        \/ LockLock(p)
        \/ LockReturn(p)

\* The scheduler runs every goroutine that can run, and a mutex that gets
\* free goes to a goroutine that waits for it.
SpecLocks == LocksInit /\ [][LocksNext]_vars /\ \A p \in Procs : WF_vars(LockRun(p))

\* ------------------------------------------------------------------ claims

AllIds == Ids \cup RepoIds

\* How many stored edges lead from a to b.
EdgeCount(fs, a, b) ==
    Cardinality({k \in DOMAIN fs : fs[k].FollowerID = a /\ fs[k].FollowingID = b})

\* C1: after every completed Create or Delete of the repository, for all u
\* and v: v is in GetFollowing(u) iff u is in GetFollowers(v) iff
\* Exists(u, v).
Thm_C1 ==
    \A u, v \in AllIds :
        /\ (v \in RepoGetFollowing(userFollowing, u)) <=> RepoExists(follows, u, v)
        /\ (u \in RepoGetFollowers(userFollowers, v)) <=> (v \in RepoGetFollowing(userFollowing, u))

\* A Delete has removed one edge of a user who still follows another one,
\* and an edge from and to one id is stored.
Wit_C1 ==
    /\ call.op = "RepoDelete" /\ call.err = Nil
    /\ RepoGetFollowing(userFollowing, call.a) # {}
    /\ \E u \in RepoIds : RepoExists(follows, u, u)

\* C2: after Follow(u, v) returned success, Exists(u, v) holds (which is what
\* GetFollowStatus reports), v is in GetFollowing(u) and u is in
\* GetFollowers(v); and Follow(u, v) of two registered users u # v without
\* the edge does return success.
Thm_C2 ==
    call.op = "Follow" =>
        /\ call.err = Nil =>
              /\ RepoExists(follows, call.a, call.b)
              /\ call.b \in RepoGetFollowing(userFollowing, call.a)
              /\ call.a \in RepoGetFollowers(userFollowers, call.b)
        /\ ( /\ call.a # call.b
             /\ call.a \in DOMAIN users /\ call.b \in DOMAIN users
             /\ ~RepoExists(pre.follows, call.a, call.b) ) => call.err = Nil

Wit_C2 ==
    /\ call.op = "Follow" /\ call.err = Nil
    /\ call.a # call.b /\ ~RepoExists(pre.follows, call.a, call.b)

\* C3: a Follow(u, v) right after a successful Follow(u, v) fails with
\* "already following this user", and exactly one edge and one entry in each
\* index stay stored for the pair.
Thm_C3 ==
    (call.op = "Follow" /\ call.chained) =>
        /\ call.err = ErrAlready
        /\ EdgeCount(follows, call.a, call.b) = 1
        /\ Cardinality(DOMAIN follows) = Cardinality(DOMAIN pre.follows)
        /\ call.b \in RepoGetFollowing(userFollowing, call.a)
        /\ call.a \in RepoGetFollowers(userFollowers, call.b)
        /\ Snapshot = pre

Wit_C3 == call.op = "Follow" /\ call.chained /\ call.err = ErrAlready

\* C4 as stated: Follow(u, u) fails with "cannot follow yourself" for any u.
Orig_C4 ==
    (call.op = "Follow" /\ call.a = call.b) => call.err = ErrSelf

\* C4, amended: Follow(u, u) never stores an edge; it fails with "cannot follow
\* yourself" for any u other than 0, registered or not, and with the
\* missing-id error for u = 0.
Thm_C4 ==
    (call.op = "Follow" /\ call.a = call.b) =>
        /\ call.err = (IF call.a = 0 THEN ErrRequired ELSE ErrSelf)
        /\ ~RepoExists(follows, call.a, call.a)
        /\ Snapshot = pre

\* Follow(u, u) of a non-zero id that is not registered.
Wit_C4 ==
    /\ call.op = "Follow" /\ call.a = call.b /\ call.a # 0
    /\ call.a \notin DOMAIN users
    /\ call.err = ErrSelf

\* C5: Follow returns the error of the first violated precondition in the
\* order missing id, self-follow, follower registered, following registered,
\* duplicate edge; and succeeds when none is violated.
Thm_C5 ==
    call.op = "Follow" =>
        LET a == call.a
            b == call.b
            missing == a = 0 \/ b = 0
            self == a = b
            noFollower == a \notin DOMAIN users
            noFollowing == b \notin DOMAIN users
            dup == RepoExists(pre.follows, a, b)
        IN  /\ missing => call.err = ErrRequired
            /\ (~missing /\ self) => call.err = ErrSelf
            /\ (~missing /\ ~self /\ noFollower) => call.err = ErrFollowerNotFound
            /\ (~missing /\ ~self /\ ~noFollower /\ noFollowing)
                   => call.err = ErrFollowingNotFound
            /\ (~missing /\ ~self /\ ~noFollower /\ ~noFollowing /\ dup)
                   => call.err = ErrAlready
            /\ (~missing /\ ~self /\ ~noFollower /\ ~noFollowing /\ ~dup)
                   => call.err = Nil

\* Both users unknown: the follower's error is the one returned.
Wit_C5 ==
    /\ call.op = "Follow" /\ call.a # 0 /\ call.b # 0 /\ call.a # call.b
    /\ call.a \notin DOMAIN users /\ call.b \notin DOMAIN users
    /\ call.err = ErrFollowerNotFound

\* C6 as stated: Unfollow(u, v) without the edge (u, v) fails with "follow
\* relationship not found" and alters nothing.
Orig_C6 ==
    (call.op = "Unfollow" /\ ~RepoExists(pre.follows, call.a, call.b)) =>
        /\ call.err = ErrRelNotFound
        /\ Snapshot = pre

\* C6, amended: Unfollow(u, v) without the edge (u, v) alters none of the
\* three maps; it fails with "follow relationship not found" when u and v are
\* not 0, and with the missing-id error when one of them is 0.
Thm_C6 ==
    (call.op = "Unfollow" /\ ~RepoExists(pre.follows, call.a, call.b)) =>
        /\ call.err = (IF call.a = 0 \/ call.b = 0 THEN ErrRequired ELSE ErrRelNotFound)
        /\ Snapshot = pre

\* An Unfollow of a pair that is not stored, while another edge is.
Wit_C6 ==
    /\ call.op = "Unfollow" /\ call.err = ErrRelNotFound
    /\ ~RepoExists(pre.follows, call.a, call.b)
    /\ DOMAIN follows # {}

\* C7: a successful Follow(u, v) followed by Unfollow(u, v): the Unfollow
\* succeeds, GetFollowing, GetFollowers and Exists return for every id what
\* they returned before the Follow, and Follow(u, v) would succeed again.
Thm_C7 ==
    [][ (call'.op = "Unfollow" /\ call'.chained) =>
          /\ call'.err = Nil
          /\ Obs(follows', userFollowers', userFollowing')
               = Obs(pre.follows, pre.userFollowers, pre.userFollowing)
          /\ FollowPreErr(users', call'.a, call'.b) = Nil
          /\ FollowDupErr(follows', call'.a, call'.b) = Nil ]_vars

\* The round trip has been made while another edge is stored.
Wit_C7 ==
    /\ call.op = "Unfollow" /\ call.chained /\ call.err = Nil
    /\ DOMAIN follows # {}

\* The edge map and the two indices agree about the pair (u, v).
Agree(u, v) ==
    /\ RepoExists(follows, u, v) <=> (v \in RepoGetFollowing(userFollowing, u))
    /\ RepoExists(follows, u, v) <=> (u \in RepoGetFollowers(userFollowers, v))

\* C8 as stated: of the Follow calls on one ordered pair that run
\* concurrently, exactly one returns success and every other fails with
\* "already following this user": no two of them both return success, one
\* having stored its edge over the edge the other stored after the first
\* one's duplicate check.
Orig_C8 ==
    \A p, q \in Procs :
        ( /\ p # q
          /\ pc[p] = "idle" /\ loc[p].op = "Follow" /\ loc[p].err = Nil
          /\ pc[q] = "idle" /\ loc[q].op = "Follow" /\ loc[q].err = Nil
          /\ loc[p].a = loc[q].a /\ loc[p].b = loc[q].b )
        => (~loc[p].dup /\ ~loc[q].dup)

\* C9: while a goroutine holds the read lock of the follow repository (it is
\* inside Exists, GetFollowers or GetFollowing), no writer holds the lock and
\* the edge map and the two indices agree about every pair.
Thm_C9 ==
    \A p \in Procs :
        p \in mu.readers =>
            /\ mu.writer = 0
            /\ \A u, v \in ConcIds : Agree(u, v)

\* A reader is inside GetFollowers or GetFollowing of a user with an edge
\* while a writer waits for the lock.
Wit_C9 ==
    \E p, q \in Procs :
        /\ p \in mu.readers
        /\ pc[p] \in {"followers_read", "following_read"}
        /\ pc[q] \in {"create_lock", "delete_lock"}
        /\ DOMAIN follows # {}

\* C10 as stated: no handler of main.go reads or writes follows,
\* userFollowers or userFollowing while another handler is between its first
\* and its last index update.
Orig_C10 ==
    [][ \A p, q \in Procs :
          (p # q /\ pc[p] \in {"hf_following", "hu_following"})
              => ~(MapAt(pc[q]) # "none" /\ pc'[q] # pc[q]) ]_vars

\* C11: UpdatePost or DeletePost of a stored post by a user other than its
\* author fails, with "unauthorized to update this post" or "unauthorized to
\* delete this post" when the caller names a user (a user id is never 0); the
\* post stays stored with its content and owner, no map of the repository
\* changes, and the author's own UpdatePost and DeletePost of it still pass
\* every check.
Thm_C11 ==
    ( /\ pcall.op \in {"UpdatePost", "DeletePost"}
      /\ pcall.postID \in DOMAIN ppre.posts
      /\ pcall.userID # ppre.posts[pcall.postID].UserID ) =>
        LET owner == ppre.posts[pcall.postID].UserID
        IN  /\ pcall.err # Nil
            /\ pcall.userID # 0 =>
                   pcall.err = (IF pcall.op = "UpdatePost" THEN ErrUnauthorizedUpdate
                                ELSE ErrUnauthorizedDelete)
            /\ pcall.postID \in DOMAIN posts
            /\ posts[pcall.postID] = ppre.posts[pcall.postID]
            /\ PostSnapshot = ppre
            /\ UpdatePostErr(posts, pcall.postID, owner, Repeat(1)) = Nil
            /\ DeletePostErr(posts, pcall.postID, owner) = Nil

\* User 2 has tried to replace the content of a post of user 1 by another
\* valid content.
Wit_C11 ==
    /\ pcall.op = "UpdatePost" /\ pcall.err = ErrUnauthorizedUpdate
    /\ pcall.userID = 2
    /\ ValidateContent(pcall.content) = Nil
    /\ posts[pcall.postID].Content # pcall.content

\* C12: a successful UpdatePost changes only the content and the update time
\* of its post: the post keeps its id, its author and its creation time, the
\* author's list of post ids is what it was, every other post is what it
\* was, and no post is added or removed.
Thm_C12 ==
    (pcall.op = "UpdatePost" /\ pcall.err = Nil) =>
        LET id == pcall.postID
            old == ppre.posts[id]
            new == posts[id]
        IN  /\ new.ID = old.ID
            /\ new.UserID = old.UserID
            /\ new.CreatedAt = old.CreatedAt
            /\ new.Content = pcall.content
            /\ new.UpdatedAt >= old.UpdatedAt
            /\ new = [old EXCEPT !.Content = new.Content, !.UpdatedAt = new.UpdatedAt]
            /\ pcall.out = <<new>>
            /\ userPosts = ppre.userPosts
            /\ nextPostID = ppre.nextPostID
            /\ DOMAIN posts = DOMAIN ppre.posts
            /\ \A other \in DOMAIN posts \ {id} : posts[other] = ppre.posts[other]

\* The second of two stored posts of one author got another content at a
\* later time than its creation.
Wit_C12 ==
    /\ pcall.op = "UpdatePost" /\ pcall.err = Nil
    /\ Cardinality(DOMAIN posts) = 2
    /\ Len(ListAt(userPosts, pcall.userID)) = 2
    /\ posts[pcall.postID].Content # ppre.posts[pcall.postID].Content
    /\ posts[pcall.postID].UpdatedAt > posts[pcall.postID].CreatedAt

\* The ids of the posts in a result.
PostIdsOf(out) == {out[i].ID : i \in 1..Len(out)}

\* C13: after a successful DeletePost the post is in neither map of the
\* repository: GetByID fails, no user's list holds its id, and neither
\* GetByUserID of any user nor GetByUserIDs of any users in any order (what a
\* timeline is read from) returns it; the author's list is its old list
\* without that id, so every other post of the author is returned as before;
\* and DeletePost of the same id by the author now fails with "post not
\* found".
Thm_C13 ==
    (pcall.op = "DeletePost" /\ pcall.err = Nil) =>
        LET id == pcall.postID
            old == ppre.posts[id]
            before == PostGetByUserID(ppre.posts, ppre.userPosts, old.UserID)
            after == PostGetByUserID(posts, userPosts, old.UserID)
        IN  /\ pcall.userID = old.UserID
            /\ PostGetByIDFails(posts, id)
            /\ \A u \in DOMAIN userPosts : \A i \in 1..Len(userPosts[u]) : userPosts[u][i] # id
            /\ \A u \in PostUserIds : id \notin PostIdsOf(PostGetByUserID(posts, userPosts, u))
            /\ \A S \in SUBSET PostUserIds : \A ids \in Orders(S) :
                   id \notin PostIdsOf(PostGetByUserIDs(posts, userPosts, ids))
            /\ ListAt(userPosts, old.UserID)
                   = SelectSeq(ListAt(ppre.userPosts, old.UserID), LAMBDA x : x # id)
            /\ after = SelectSeq(before, LAMBDA post : post.ID # id)
            /\ DOMAIN posts = DOMAIN ppre.posts \ {id}
            /\ \A other \in DOMAIN posts : posts[other] = ppre.posts[other]
            /\ DeletePostErr(posts, id, old.UserID) = ErrPostNotFound

\* The author has deleted the older of its two posts.
Wit_C13 ==
    /\ pcall.op = "DeletePost" /\ pcall.err = Nil
    /\ Len(ListAt(userPosts, pcall.userID)) = 1
    /\ userPosts[pcall.userID][1] > pcall.postID
    /\ Len(PostGetByUserID(posts, userPosts, pcall.userID)) = 1

\* C14: the ids handed out by the successful creations, in their order, start
\* at 1 and each is greater than every id handed out before it, whether its
\* post is still stored or has been deleted; the post a creation returns and
\* stores carries the id handed out last.
Thm_C14 ==
    /\ \A i, j \in 1..Len(assigned) : i < j => assigned[i] < assigned[j]
    /\ Len(assigned) >= 1 => assigned[1] = 1
    /\ \A id \in DOMAIN posts : \E i \in 1..Len(assigned) : assigned[i] = id /\ posts[id].ID = id
    /\ (pcall.op = "CreatePost" /\ pcall.err = Nil) =>
           /\ pcall.postID = assigned[Len(assigned)]
           /\ pcall.out[1].ID = pcall.postID
           /\ pcall.postID \notin DOMAIN ppre.posts

\* A post has been created after the deletion of an earlier one.
Wit_C14 ==
    /\ pcall.op = "CreatePost" /\ pcall.err = Nil
    /\ Len(assigned) = 2
    /\ assigned[1] \notin DOMAIN posts

\* C15 as stated: of the creations that run concurrently through
\* GetNextPostID and Create, no two end up with the same id, and no stored
\* post is overwritten by another creation: every creation that returned has
\* its own post stored.
Orig_C15 ==
    /\ \A i, j \in 1..Len(assigned) : assigned[i] = assigned[j] => i = j
    /\ \A p \in Procs : ~loc[p].dup
    /\ Cardinality(DOMAIN posts) = Len(assigned)

\* C16: GetTimeline of a registered viewer succeeds and returns the stored
\* posts whose author the viewer follows at that moment, each once and no
\* other post, with Count their number; for a viewer who follows nobody that
\* is the empty list and Count 0, whatever has been posted.
Thm_C16 ==
    pcall.op = "GetTimeline" =>
        LET v == pcall.userID
            following == RepoGetFollowing(userFollowing, v)
            expected == {id \in DOMAIN posts : posts[id].UserID \in following}
        IN  /\ v \in DOMAIN users => pcall.err = Nil
            /\ pcall.err = Nil =>
                   /\ PostIdsOf(pcall.out) = expected
                   /\ Len(pcall.out) = Cardinality(expected)
                   /\ \A i \in 1..Len(pcall.out) : pcall.out[i] = posts[pcall.out[i].ID]
                   /\ pcall.count = Cardinality(expected)
                   /\ following = {} => (pcall.out = <<>> /\ pcall.count = 0)
                   /\ \A w \in following : RepoExists(follows, v, w)

\* The viewer reads the one post of the author it follows, while a post of
\* somebody it does not follow is stored and is left out.
Wit_C16 ==
    /\ pcall.op = "GetTimeline" /\ pcall.err = Nil
    /\ pcall.count = 1
    /\ pcall.out[1].UserID \in RepoGetFollowing(userFollowing, pcall.userID)
    /\ \E id \in DOMAIN posts :
           posts[id].UserID \notin RepoGetFollowing(userFollowing, pcall.userID)

\* A result in which no post stands before a post created after it.
NewestFirst(out) ==
    \A i, j \in 1..Len(out) : i < j => out[i].CreatedAt >= out[j].CreatedAt

\* C17: GetByUserID of any author and GetByUserIDs of any authors in any
\* order return their posts sorted by creation time descending, and so do the
\* results the callers got: for positions i < j the post at i was not created
\* before the post at j.
Thm_C17 ==
    /\ \A u \in TimelinePosterIds : NewestFirst(PostGetByUserID(posts, userPosts, u))
    /\ \A us \in SUBSET TimelinePosterIds : \A ids \in Orders(us) :
           NewestFirst(PostGetByUserIDs(posts, userPosts, ids))
    /\ pcall.op \in {"GetUserPosts", "GetTimeline"} /\ pcall.err = Nil =>
           NewestFirst(pcall.out)

\* A timeline of two posts of two authors created at different times: the
\* one created later, stored second, comes first.
Wit_C17 ==
    /\ pcall.op = "GetTimeline" /\ pcall.err = Nil /\ pcall.count = 2
    /\ pcall.out[1].UserID # pcall.out[2].UserID
    /\ pcall.out[1].CreatedAt > pcall.out[2].CreatedAt
    /\ pcall.out[1].ID > pcall.out[2].ID

\* C18: once Unfollow(v, a) has succeeded and v has not followed a again,
\* a successful GetTimeline(v) holds no post of a, holds every stored post of
\* every author v still follows, and is newest first.
Thm_C18 ==
    pcall.op = "GetTimeline" /\ pcall.err = Nil =>
        LET v == pcall.userID
        IN  /\ \A a \in TimelineAuthorIds :
                   <<v, a>> \in dropped =>
                       \A i \in 1..Len(pcall.out) : pcall.out[i].UserID # a
            /\ \A id \in DOMAIN posts :
                   RepoExists(follows, v, posts[id].UserID) =>
                       \E i \in 1..Len(pcall.out) : pcall.out[i] = posts[id]
            /\ NewestFirst(pcall.out)

\* User 1 has unfollowed 3 and still follows 2; post 1 is by 2 and post 2 by
\* 3; the timeline of 1 is post 1 alone.
Wit_C18 ==
    /\ pcall.op = "GetTimeline" /\ pcall.err = Nil /\ pcall.userID = 1
    /\ <<1, 3>> \in dropped
    /\ RepoExists(follows, 1, 2)
    /\ DOMAIN posts = {1, 2}
    /\ posts[1].UserID = 2 /\ posts[2].UserID = 3
    /\ pcall.out = <<posts[1]>>

\* C19: CreatePost by a registered author accepts content of length exactly
\* 300 and stores it; content of length 301 is rejected with 'content must be
\* 300 characters or less' and empty content with 'content is required', for
\* any author id given; a rejected creation leaves the stored posts, the
\* authors' lists and the next id as they were.
Thm_C19 ==
    pcall.op = "CreatePost" /\ pcall.userID # 0 =>
        /\ Len(pcall.content) = 300 /\ pcall.userID \in DOMAIN users =>
               /\ pcall.err = Nil
               /\ pcall.postID \in DOMAIN posts
               /\ pcall.postID \notin DOMAIN ppre.posts
               /\ posts[pcall.postID].Content = pcall.content
        /\ Len(pcall.content) = 301 =>
               pcall.err = "content must be 300 characters or less"
        /\ Len(pcall.content) = 0 => pcall.err = "content is required"
        /\ pcall.err # Nil => PostSnapshot = ppre

\* A post of 300 characters has been stored and the creation of one of 301
\* characters by the same registered author has just been rejected.
Wit_C19 ==
    /\ pcall.op = "CreatePost" /\ pcall.userID \in DOMAIN users
    /\ Len(pcall.content) = 301 /\ pcall.err = ErrContentTooLong
    /\ \E id \in DOMAIN posts :
           /\ Len(posts[id].Content) = 300
           /\ posts[id].UserID = pcall.userID
    /\ PostSnapshot = ppre

\* C20: for a registered user u, GetFollowers(u) returns exactly the users w
\* with an edge (w, u) and GetFollowing(u) exactly the users w with an edge
\* (u, w), each once, the count being the length of the list (an empty list
\* when there is none); for an id that is not registered both fail with
\* 'user not found'.
Thm_C20 ==
    call.op \in {"GetFollowers", "GetFollowing"} =>
        LET u == call.a
            expected == IF call.op = "GetFollowers"
                        THEN {w \in Ids : RepoExists(follows, w, u)}
                        ELSE {w \in Ids : RepoExists(follows, u, w)}
        IN  /\ u \notin DOMAIN users => call.err = "user not found" /\ call.out = <<>>
            /\ u \in DOMAIN users =>
                   /\ call.err = Nil
                   /\ {call.out[i] : i \in 1..Len(call.out)} = expected
                   /\ Len(call.out) = Cardinality(expected)
                   /\ expected = {} => call.out = <<>>

\* GetFollowers of a user with one follower whom the user does not follow
\* back: the follower is the whole result.
Wit_C20 ==
    /\ call.op = "GetFollowers" /\ call.err = Nil
    /\ Len(call.out) = 1
    /\ RepoExists(follows, call.out[1], call.a)
    /\ ~RepoExists(follows, call.a, call.out[1])

\* C21: no two stored users share an email, whether the signups are served
\* one after the other or concurrently.
Orig_C21 ==
    \A i, j \in DOMAIN users : users[i].Email = users[j].Email => i = j

Unregistered(email) == ~EmailTaken(users, email)

\* The email is registered and the password matches no user carrying it.
WrongPassword(email, password) ==
    /\ EmailTaken(users, email)
    /\ \A id \in DOMAIN users :
           users[id].Email = email => ~BcryptMatches(users[id].HashedPassword, password)

\* C23: for any non-empty email and password, a login with an unregistered
\* email and a login with a registered email and a wrong password have the
\* one same outcome, the error 'invalid email or password' with no token and
\* no user id, whatever the signing key; and so had the login just made.
Thm_C23 ==
    LET denied == [err |-> "invalid email or password", token |-> "", userID |-> 0]
    IN  /\ \A email \in LoginEmails \ {""}, password \in LoginPasswords \ {""},
              secret \in Secrets :
               Unregistered(email) \/ WrongPassword(email, password) =>
                   LoginOutcomes(users, email, password, secret) = {denied}
        /\ ucall.op = "Login" /\ ucall.email # "" /\ ucall.password # ""
           /\ (Unregistered(ucall.email) \/ WrongPassword(ucall.email, ucall.password)) =>
               [err |-> ucall.err, token |-> ucall.token, userID |-> ucall.userID] = denied

\* A user is registered, the login just made carried its email with a wrong
\* password, and a login with an unregistered email and that password would
\* get the same response.
Wit_C23 ==
    /\ ucall.op = "Login" /\ ucall.password # ""
    /\ WrongPassword(ucall.email, ucall.password)
    /\ ucall.err = ErrInvalidLogin /\ ucall.token = ""
    /\ \E email \in LoginEmails \ {""} :
           /\ Unregistered(email)
           /\ \A secret \in Secrets :
                  LoginOutcomes(users, email, ucall.password, secret) =
                      {LoginFailed(ucall.err)}

\* How many times id stands in the list of user a.
Listed(a, id) ==
    Cardinality({i \in 1..Len(ListAt(userPosts, a)) : ListAt(userPosts, a)[i] = id})

\* C24: a post id stands in userPosts[a] if and only if posts holds a post
\* with that id whose UserID is a, and every stored post id stands in the
\* lists exactly once.
Orig_C24 ==
    /\ \A a \in DOMAIN userPosts : \A i \in 1..Len(userPosts[a]) :
           /\ userPosts[a][i] \in DOMAIN posts
           /\ posts[userPosts[a][i]].UserID = a
    /\ \A id \in DOMAIN posts :
           /\ Listed(posts[id].UserID, id) = 1
           /\ \A a \in DOMAIN userPosts : a # posts[id].UserID => Listed(a, id) = 0

\* C25: when a repository call made inside Follow, Unfollow, GetFollowers
\* or GetFollowing has failed, the operation returns an error.
Orig_C25 ==
    gcall.op \in {"Follow", "Unfollow", "GetFollowers", "GetFollowing"} /\ gcall.failed =>
        gcall.err # Nil

\* C26: a call made on the in-memory and on the relational follow
\* repository after the same calls succeeds on both or fails on both, and
\* returns the same ids or the same answer.
Orig_C26 ==
    gcall.op \in {"Create", "Delete", "Exists", "GetFollowers", "GetFollowing"} =>
        /\ gcall.mem.err = Nil <=> gcall.gorm.err = Nil
        /\ gcall.mem.out = gcall.gorm.out

\* Apart from the outcome of Create, the two repositories agree: they hold
\* the same pairs, and every call but Create has the same result on both.
PairAgreesButCreate ==
    /\ rows = {<<follows[k].FollowerID, follows[k].FollowingID>> : k \in DOMAIN follows}
    /\ gcall.op \in {"Delete", "Exists", "GetFollowers", "GetFollowing"} =>
           gcall.mem = gcall.gorm

\* C27: when a follow or unfollow request that passed authentication as
\* user a has stored or removed an edge, the follower of that edge is a.
Orig_C27 ==
    gcall.op \in {"HandleFollow", "HandleUnfollow"} /\ gcall.err = Nil =>
        gcall.a = gcall.actor

\* No request that AuthMiddleware refuses changes an edge: every edge stored
\* or removed is so on a request carrying a valid token.
AuthzNeedsToken ==
    gcall.op \in {"HandleFollow", "HandleUnfollow"} /\ gcall.err = Nil =>
        gcall.actor \in DOMAIN users

\* C28: a successful Follow(u, v) or Unfollow(u, v) changes only the ordered
\* pair (u, v): for every other ordered pair (x, y), the reverse pair (v, u)
\* included, Exists(x, y), the membership of y in GetFollowing(x) and the
\* membership of x in GetFollowers(y) are what they were before the call.
Thm_C28 ==
    (call.op \in {"Follow", "Unfollow"} /\ call.err = Nil) =>
        \A x, y \in Ids :
            <<x, y>> # <<call.a, call.b>> =>
                /\ RepoExists(follows, x, y) <=> RepoExists(pre.follows, x, y)
                /\ (y \in RepoGetFollowing(userFollowing, x))
                       <=> (y \in RepoGetFollowing(pre.userFollowing, x))
                /\ (x \in RepoGetFollowers(userFollowers, y))
                       <=> (x \in RepoGetFollowers(pre.userFollowers, y))

\* A successful Unfollow(u, v) of a user v who follows u, before and after.
Wit_C28 ==
    /\ call.op = "Unfollow" /\ call.err = Nil
    /\ RepoExists(pre.follows, call.a, call.b) /\ ~RepoExists(follows, call.a, call.b)
    /\ RepoExists(pre.follows, call.b, call.a) /\ RepoExists(follows, call.b, call.a)
    /\ call.a \in RepoGetFollowing(userFollowing, call.b)
    /\ call.b \in RepoGetFollowers(userFollowers, call.a)

\* C29: no edge stored through Follow and Unfollow has its follower id equal
\* to its following id, no user is in its own following or followers index,
\* and the posts GetTimeline(v) returns are never authored by v.
Thm_C29 ==
    /\ \A k \in DOMAIN follows : follows[k].FollowerID # follows[k].FollowingID
    /\ \A u \in Ids :
           /\ u \notin RepoGetFollowing(userFollowing, u)
           /\ u \notin RepoGetFollowers(userFollowers, u)
    /\ (pcall.op = "GetTimeline" /\ pcall.err = Nil) =>
           \A i \in 1..Len(pcall.out) : pcall.out[i].UserID # pcall.userID

\* GetTimeline(v) has returned a post of a user v follows while a post of v
\* itself is stored.
Wit_C29 ==
    /\ pcall.op = "GetTimeline" /\ pcall.err = Nil
    /\ Len(pcall.out) = 1
    /\ \E id \in DOMAIN posts : posts[id].UserID = pcall.userID
    /\ \E k \in DOMAIN follows : follows[k].FollowerID = pcall.userID

\* No goroutine that holds a repository lock is acquiring a lock, and
\* whenever a call is under way some goroutine can take its next step.
LocksSafe ==
    /\ \A p \in Procs :
           /\ pc[p] \in {"idle", "method", "waiting"} => Holds(p) = {}
           /\ Cardinality(Holds(p)) <= 1
    /\ (\E p \in Procs : pc[p] # "idle") => \E q \in Procs : ENABLED LockRun(q)

\* C30: no core operation holds a repository lock while it acquires a lock,
\* so no state in which the started calls all wait is reachable, and under
\* fair scheduling every started call returns, holding no lock.
Thm_C30 ==
    /\ []LocksSafe
    /\ \A p \in Procs : (pc[p] # "idle") ~> (pc[p] = "idle" /\ Holds(p) = {})

\* A Follow waits for the write lock of the follow repository, which another
\* goroutine's GetFollowers holds for reading, while the last call of the run
\* has been started.
Wit_C30 ==
    \E p, q \in Procs :
        /\ loc[p].op = "Follow" /\ pc[p] = "waiting" /\ LockStep(p) = <<"follow", "W">>
        /\ loc[q].op = "GetFollowers" /\ pc[q] = "locked" /\ q \in mu["follow"].readers
        /\ ~ENABLED LockLock(p)
        /\ ncalls = MaxCalls

====
